---- MODULE Spec2Model ----
(***************************************************************************)
(* Model of the cloudpods sync engine: the sync state machine of           *)
(* cloudaccount / cloudprovider / cloudprovider-region, the task           *)
(* orchestration of CloudAccountSyncInfoTask, the resource synchronizer    *)
(* SZoneManager.SyncZones and the names newFromCloudZone gives, the scope   *)
(* resolver SSyncRange.Normalize, the project-mapping cache (pmCache,      *)
(* refreshPmCaches and the GetProjectMapping methods, sequential and       *)
(* concurrent), the enabled flag, delete check and start-up reset of the   *)
(* cloudprovider records, and the locks of concurrent SyncZones passes.    *)
(***************************************************************************)
EXTENDS Integers, Sequences, FiniteSets, TLC

VARIABLES
    account,     \* the cloudaccount row: enabled, sync_status
    providers,   \* cloudproviders_tbl: provider id -> row
    cprs,        \* cloudprovider-region bindings: provider id -> region id -> row
    atask,       \* the CloudAccountSyncInfoTask of the account
    ptasks,      \* scheduled CloudProviderSyncInfoTask records
    rsub,        \* submitted, unfinished region sub-tasks per binding
    nTasks,      \* provider tasks created so far
    nSyncs,      \* account-level sync requests made so far
    nFaults,     \* storage errors injected so far
    lastCall,    \* outcome of the API call made by the last step, if any
    zones,       \* zones_tbl
    nets,        \* intervpcnetworks_tbl
    zlocks,      \* the keys held in lockman
    zpass,       \* the sync pass each goroutine runs
    zlast,       \* per parent, the remote list of the last pass that ended without error
    nPasses,     \* sync passes started so far
    nZFaults,    \* storage errors injected into sync passes so far
    nextId,      \* the last row id given out
    norm,        \* a call of SSyncRange.Normalize: its receiver before and after, its error
    pmc,         \* a call of GetProjectMapping: what it was made on and what it returns
    pmStore,     \* cloudproviders_tbl and cloudaccounts_tbl: the project-mapping columns
    pmCaches     \* the map pmCaches: provider id -> pmCache

vars == <<account, providers, cprs, atask, ptasks, rsub, nTasks, nSyncs, nFaults, lastCall,
          zones, nets, zlocks, zpass, zlast, nPasses, nZFaults, nextId, norm, pmc,
          pmStore, pmCaches>>

\* The variables a step of the resource synchronizer leaves alone, and the
\* variables a step of the sync state machine leaves alone.
svars == <<account, providers, cprs, atask, ptasks, rsub, nTasks, nSyncs, nFaults, lastCall,
           norm, pmc, pmStore, pmCaches>>
zvars == <<zones, nets, zlocks, zpass, zlast, nPasses, nZFaults, nextId, norm, pmc,
           pmStore, pmCaches>>

(***************************************************************************)
(* Bounds of the model.                                                    *)
(***************************************************************************)
MaxTasks == 1
MaxAccountSyncs == 1
MaxFaults == 1
MaxPasses == 2
MaxZoneFaults == 1
MaxScopeLen == 2

(***************************************************************************)
(* api.CLOUD_PROVIDER_SYNC_STATUS_*                                        *)
(***************************************************************************)
IDLE == "idle"
QUEUING == "queuing"
QUEUED == "queued"
SYNCING == "syncing"
ERROR == "error"

SyncStatuses == {IDLE, QUEUING, QUEUED, SYNCING}

Providers == {"p1", "p2"}
Regions == {"r1", "r2"}

\* The regions a provider has a cloudprovider-region binding for.
RegionsOf(p) == IF p = "p1" THEN {"r1", "r2"} ELSE {"r1"}

(***************************************************************************)
(* Rows of cloudregions_tbl, zones_tbl and hosts_tbl that the scope        *)
(* queries read.                                                           *)
(***************************************************************************)
CloudregionRows == {[id |-> "r1", name |-> "R1"], [id |-> "r2", name |-> "R2"]}
ZoneRows == {[id |-> "z1", name |-> "Z1", cloudregion_id |-> "r1"],
             [id |-> "z2", name |-> "Z2", cloudregion_id |-> "r2"]}
\* Host h3 has no zone.
HostRows == {[id |-> "h1", name |-> "H1", zone_id |-> "z1"],
             [id |-> "h2", name |-> "H2", zone_id |-> "z2"],
             [id |-> "h3", name |-> "H3", zone_id |-> ""]}

SeqToSet(s) == {s[i] : i \in DOMAIN s}

(***************************************************************************)
(* SSyncRange                                                              *)
(***************************************************************************)
NewSyncRange(full, force, region, zone, host, resources) ==
    [full_sync |-> full, deep_sync |-> FALSE, force |-> force,
     region |-> region, zone |-> zone, host |-> host, resources |-> resources]

GetRegionIds(sr) ==
    IF Len(sr.host) = 0 /\ Len(sr.zone) = 0 /\ Len(sr.region) = 0
    THEN {}
    ELSE LET hosts == {h \in HostRows : h.id \in SeqToSet(sr.host) \/ h.name \in SeqToSet(sr.host)}
             inZones == {z \in ZoneRows : \/ z.id \in SeqToSet(sr.zone)
                                          \/ z.name \in SeqToSet(sr.zone)
                                          \/ z.id \in {h.zone_id : h \in hosts}}
         IN  {r.id : r \in {x \in CloudregionRows : \/ x.id \in SeqToSet(sr.region)
                                                   \/ x.name \in SeqToSet(sr.region)
                                                   \/ x.id \in {z.cloudregion_id : z \in inZones}}}

NeedSyncInfo_Always(sr) == TRUE

NeedSyncInfo(sr) ==
    IF sr.full_sync THEN TRUE
    ELSE IF Len(sr.region) > 0 \/ Len(sr.zone) > 0 \/ Len(sr.host) > 0 \/ Len(sr.resources) > 0
         THEN TRUE
         ELSE FALSE

\* The error values of Normalize: nil, and httperrors.NewResourceNotFoundError
\* for an identifier of a kind.
NoErr == [class |-> "", kind |-> "", id |-> ""]
NotFoundError(kind, idStr) == [class |-> "NotFound", kind |-> kind, id |-> idStr]

\* manager.FetchByIdOrName: the rows whose id or name is idStr; none is
\* sql.ErrNoRows.
FetchByIdOrName(rows, idStr) == {x \in rows : x.id = idStr \/ x.name = idStr}

\* zone.GetRegion() and host.GetZone(): the row, or none (nil).
GetRegion(zone) == {r \in CloudregionRows : r.id = zone.cloudregion_id}
GetZone(host) == {z \in ZoneRows : z.id = host.zone_id}

IsInStringArray(x, arr) == \E k \in DOMAIN arr : arr[k] = x

AppendIfMissing(arr, x) == IF IsInStringArray(x, arr) THEN arr ELSE Append(arr, x)

\* The loop of normalizeRegionIds from index i on.
RECURSIVE normalizeRegionIds(_, _)
normalizeRegionIds(sr, i) ==
    IF i > Len(sr.region) THEN [sr |-> sr, err |-> NoErr]
    ELSE LET obj == FetchByIdOrName(CloudregionRows, sr.region[i])
         IN  IF obj = {} THEN [sr |-> sr, err |-> NotFoundError("Region", sr.region[i])]
             ELSE normalizeRegionIds([sr EXCEPT !.region[i] = (CHOOSE x \in obj : TRUE).id], i + 1)

\* The loop of normalizeZoneIds from index i on.
RECURSIVE normalizeZoneIds(_, _)
normalizeZoneIds(sr, i) ==
    IF i > Len(sr.zone) THEN [sr |-> sr, err |-> NoErr]
    ELSE LET obj == FetchByIdOrName(ZoneRows, sr.zone[i])
         IN  IF obj = {} THEN [sr |-> sr, err |-> NotFoundError("Zone", sr.zone[i])]
             ELSE LET zone == CHOOSE x \in obj : TRUE
                      region == GetRegion(zone)
                  IN  IF region = {} THEN normalizeZoneIds(sr, i + 1)
                      ELSE normalizeZoneIds(
                               [sr EXCEPT !.zone[i] = zone.id,
                                          !.region = AppendIfMissing(@, (CHOOSE r \in region : TRUE).id)],
                               i + 1)

\* The loop of normalizeHostIds from index i on.
RECURSIVE normalizeHostIds(_, _)
normalizeHostIds(sr, i) ==
    IF i > Len(sr.host) THEN [sr |-> sr, err |-> NoErr]
    ELSE LET obj == FetchByIdOrName(HostRows, sr.host[i])
         IN  IF obj = {} THEN [sr |-> sr, err |-> NotFoundError("Host", sr.host[i])]
             ELSE LET host == CHOOSE x \in obj : TRUE
                      zone == GetZone(host)
                      region == IF zone = {} THEN {} ELSE GetRegion(CHOOSE z \in zone : TRUE)
                  IN  IF zone = {} \/ region = {} THEN normalizeHostIds(sr, i + 1)
                      ELSE normalizeHostIds(
                               [sr EXCEPT !.host[i] = host.id,
                                          !.zone = AppendIfMissing(@, (CHOOSE z \in zone : TRUE).id),
                                          !.region = AppendIfMissing(@, (CHOOSE r \in region : TRUE).id)],
                               i + 1)

\* Normalize with the hosts resolved before the zones.
Normalize_HostsFirst(sr) ==
    LET a == IF Len(sr.region) > 0 THEN normalizeRegionIds(sr, 1) ELSE [sr |-> sr, err |-> NoErr]
    IN  IF a.err # NoErr THEN a
        ELSE LET b == IF Len(a.sr.host) > 0 THEN normalizeHostIds(a.sr, 1) ELSE a
             IN  IF b.err # NoErr THEN b
                 ELSE IF Len(b.sr.zone) > 0 THEN normalizeZoneIds(b.sr, 1) ELSE b

\* SSyncRange.Normalize: the receiver after the call and the error returned.
Normalize(sr) ==
    LET a == IF Len(sr.region) > 0 THEN normalizeRegionIds(sr, 1) ELSE [sr |-> sr, err |-> NoErr]
    IN  IF a.err # NoErr THEN a
        ELSE LET b == IF Len(a.sr.zone) > 0 THEN normalizeZoneIds(a.sr, 1) ELSE a
             IN  IF b.err # NoErr THEN b
                 ELSE IF Len(b.sr.host) > 0 THEN normalizeHostIds(b.sr, 1) ELSE b

\* The sync ranges requests are made with (already normalized: ids only).
SyncRangeInputs ==
    {NewSyncRange(TRUE, f, <<>>, <<>>, <<>>, <<>>) : f \in BOOLEAN} \cup
    {NewSyncRange(FALSE, FALSE, <<"r1">>, <<>>, <<>>, <<>>)}

(***************************************************************************)
(* db is the record [account, providers, cprs] of the three tables; the    *)
(* methods below map a db to the db after the call.                        *)
(***************************************************************************)
DB == [account |-> account, providers |-> providers, cprs |-> cprs]

\* SSyncableBaseResource.CanSync of a cloudprovider: admission control.
CanSync(d, p) == d.providers[p].sync_status = IDLE

\* SSyncableBaseResource.CanSync of a provider-region binding: re-entrancy guard.
CprCanSync(row) == row.sync_status \notin {QUEUED, SYNCING}

\* SCloudproviderregion.markStartingSync
CprMarkStartingSync(row, r, sr) ==
    IF Len(sr.region) > 0 /\ r \notin SeqToSet(sr.region) THEN row
    ELSE IF row.sync_status \in {IDLE, QUEUED, QUEUING}
         THEN [row EXCEPT !.sync_status = QUEUING]
         ELSE row

\* SCloudproviderregion.cancelStartingSync
CprCancelStartingSync(row) ==
    IF row.sync_status = QUEUING THEN [row EXCEPT !.sync_status = IDLE] ELSE row

\* The loop of markStartingSync / markStartSync without the test of Enabled.
MarkEnabledCprsStarting_All(d, p, sr) ==
    [d EXCEPT !.cprs[p] = [r \in DOMAIN d.cprs[p] |->
        CprMarkStartingSync(d.cprs[p][r], r, sr)]]

\* The loop over GetCloudproviderRegions() of markStartingSync / markStartSync.
MarkEnabledCprsStarting(d, p, sr) ==
    [d EXCEPT !.cprs[p] = [r \in DOMAIN d.cprs[p] |->
        IF d.cprs[p][r].enabled THEN CprMarkStartingSync(d.cprs[p][r], r, sr)
        ELSE d.cprs[p][r]]]

markStartingSync(d, p, sr) ==
    MarkEnabledCprsStarting([d EXCEPT !.providers[p].sync_status = QUEUING], p, sr)

\* markStartSync writing queuing, as markStartingSync does.
markStartSync_Queuing(d, p, sr) ==
    MarkEnabledCprsStarting([d EXCEPT !.providers[p].sync_status = QUEUING], p, sr)

markStartSync(d, p, sr) ==
    MarkEnabledCprsStarting([d EXCEPT !.providers[p].sync_status = QUEUED], p, sr)

\* time.Time{}: the zero time of a timestamp that is not set.
ZeroTime == 0

\* timeutils.UtcNow() as a logical clock: later than every timestamp recorded
\* in the provider rows.
UtcNow(d) ==
    LET stamps == {d.providers[q].last_sync : q \in Providers}
                    \cup {d.providers[q].last_sync_end_at : q \in Providers}
    IN  1 + CHOOSE m \in stamps : \A x \in stamps : x <= m

\* markSyncing leaving last_sync_end_at as it is.
markSyncing_KeepEnd(d, p) ==
    [d EXCEPT !.providers[p].sync_status = SYNCING,
              !.providers[p].last_sync = UtcNow(d)]

markSyncing(d, p) ==
    [d EXCEPT !.providers[p].sync_status = SYNCING,
              !.providers[p].last_sync = UtcNow(d),
              !.providers[p].last_sync_end_at = ZeroTime]

markEndSync(d, p) ==
    [d EXCEPT !.providers[p].sync_status = IDLE,
              !.providers[p].last_sync_end_at = UtcNow(d)]

\* getSyncStatus2 without the query over the bindings.
getSyncStatus2_NoGate(d, p, countErr) == IDLE

\* countErr: q.CountWithError() fails.
getSyncStatus2(d, p, countErr) ==
    IF countErr THEN ERROR
    ELSE IF \E r \in DOMAIN d.cprs[p] : d.cprs[p][r].sync_status # IDLE THEN SYNCING
    ELSE IDLE

cancelStartingSync_AnyStatus(d, p) ==
    [d EXCEPT !.cprs[p] = [r \in DOMAIN d.cprs[p] |-> CprCancelStartingSync(d.cprs[p][r])],
              !.providers[p].sync_status = IDLE]

cancelStartingSync(d, p) ==
    IF d.providers[p].sync_status = QUEUING
    THEN [d EXCEPT !.cprs[p] = [r \in DOMAIN d.cprs[p] |-> CprCancelStartingSync(d.cprs[p][r])],
                   !.providers[p].sync_status = IDLE]
    ELSE d

GetEnabledCloudproviders(d) == {p \in Providers : d.providers[p].enabled}

\* SCloudaccount.MarkSyncing
AccountMarkSyncing(d) == [d EXCEPT !.account.sync_status = SYNCING]

\* The cancellation of the providers still queuing, one after the other.
RECURSIVE CancelAll(_, _)
CancelAll(d, ps) ==
    IF ps = {} THEN d
    ELSE LET p == CHOOSE x \in ps : TRUE
         IN  CancelAll(cancelStartingSync(d, p), ps \ {p})

\* SCloudaccount.MarkEndSyncWithLock: providers still queuing are cancelled,
\* and the account goes idle only if none of its providers is non-idle.
AccountMarkEndSyncWithLock(d) ==
    LET c == CancelAll(d, Providers)
    IN  IF \E p \in Providers : c.providers[p].sync_status # IDLE THEN c
        ELSE IF c.account.sync_status = IDLE THEN c
        ELSE [c EXCEPT !.account.sync_status = IDLE]

\* Storage faults a call may meet: none, the count query of getSyncStatus2,
\* or the db.Update of markEndSync.
Faults == {"none", "count", "update", "regions"}

\* The closure under lockman.LockObject of markEndSyncWithLock: the db after
\* it and whether it returned an error.
markEndSyncLocked(d, p, fault) ==
    IF d.providers[p].sync_status = IDLE THEN [db |-> d, err |-> FALSE]
    ELSE IF getSyncStatus2(d, p, fault = "count") # IDLE THEN [db |-> d, err |-> FALSE]
    ELSE IF fault = "update" THEN [db |-> d, err |-> TRUE]
    ELSE [db |-> markEndSync(d, p), err |-> FALSE]

markEndSyncWithLock(d, p, fault) ==
    LET res == markEndSyncLocked(d, p, fault)
    IN  IF res.err THEN res.db
        ELSE AccountMarkEndSyncWithLock(res.db)

\* The record of a call of markEndSyncWithLock on d: the provider's status and
\* whether all its bindings were idle when the closure ran, and whether the
\* closure reached markEndSync and wrote idle.
EndCall(d, p, fault) ==
    [op |-> "markEndSyncWithLock", provider |-> p,
     status |-> d.providers[p].sync_status,
     children_idle |-> \A r \in DOMAIN d.cprs[p] : d.cprs[p][r].sync_status = IDLE,
     ended |-> /\ d.providers[p].sync_status # IDLE
               /\ markEndSyncLocked(d, p, fault).db.providers[p].sync_status = IDLE]

(***************************************************************************)
(* Tasks                                                                   *)
(***************************************************************************)
NoCall == [op |-> "none"]
Nil == [nil |-> TRUE]

\* db.ACT_SYNCING_HOST, db.ACT_SYNC_HOST_COMPLETE, db.ACT_SYNC_HOST_FAILED
ACT_SYNCING_HOST == "syncing_host"
ACT_SYNC_HOST_COMPLETE == "sync_host_complete"
ACT_SYNC_HOST_FAILED == "sync_host_failed"

NoTask == [stage |-> "none", sync_range |-> Nil, result |-> "", subtasks |-> {},
           created |-> 0, subfailed |-> FALSE, log |-> <<>>, synced |-> FALSE]

SetDB(d) ==
    /\ account' = d.account
    /\ providers' = d.providers
    /\ cprs' = d.cprs

FaultCost(fault) == IF fault = "none" THEN 0 ELSE 1

\* taskman.TaskManager.NewTask then task.ScheduleRun: the scheduled
\* CloudProviderSyncInfoTask.
NewProviderTask(id, p, sr, parentTaskId) ==
    [id |-> id, provider |-> p, sync_range |-> sr, parent |-> parentTaskId]

\* StartSyncCloudProviderInfoTask marking the account and the provider before
\* NewTask is called.
StartSyncCloudProviderInfoTask_MarkFirst(d, p, sr, newTaskOk) ==
    markStartSync(AccountMarkSyncing(d), p, sr)

\* StartSyncCloudProviderInfoTask on db d: the db after it. newTaskOk is
\* whether NewTask succeeded.
StartSyncCloudProviderInfoTask(d, p, sr, newTaskOk) ==
    IF ~newTaskOk THEN d
    ELSE markStartSync(AccountMarkSyncing(d), p, sr)

\* The sync range PerformSync builds from its input.
PerformSyncRange(input) ==
    IF input.full_sync \/ Len(input.region) > 0 \/ Len(input.zone) > 0
       \/ Len(input.host) > 0 \/ Len(input.resources) > 0
    THEN [input EXCEPT !.deep_sync = TRUE]
    ELSE input

\* PerformSync without the test of CanSync and of the force flag.
PerformSyncCheck_NoAdmission(d, p, input) ==
    IF ~d.providers[p].enabled THEN "InvalidStatus"
    ELSE IF ~d.account.enabled THEN "InvalidStatus"
    ELSE ""

\* PerformSync without the test of the owning account's enabled flag.
PerformSyncCheck_NoAccountCheck(d, p, input) ==
    IF ~d.providers[p].enabled THEN "InvalidStatus"
    ELSE IF d.providers[p].sync_status = IDLE \/ input.force THEN ""
    ELSE "InvalidStatus"

\* What PerformSync answers before it starts a task: "" when the sync is admitted.
PerformSyncCheck(d, p, input) ==
    IF ~d.providers[p].enabled THEN "InvalidStatus"
    ELSE IF ~d.account.enabled THEN "InvalidStatus"
    ELSE IF CanSync(d, p) \/ PerformSyncRange(input).force THEN ""
    ELSE "InvalidStatus"

\* The API call PerformSync; newTaskOk: NewTask succeeds. Calls are made while
\* the budget of provider tasks lasts.
PerformSync(p, input, newTaskOk) ==
    LET check == PerformSyncCheck(DB, p, input)
        sr == PerformSyncRange(input)
    IN  /\ nTasks < MaxTasks
        /\ (check = "" /\ ~newTaskOk) => nFaults < MaxFaults
        /\ check # "" => newTaskOk
        /\ UNCHANGED zvars
        /\ lastCall' = [op |-> "PerformSync", provider |-> p, force |-> input.force,
                        status |-> providers[p].sync_status,
                        enabled |-> providers[p].enabled,
                        account_enabled |-> account.enabled,
                        err |-> IF check # "" THEN check
                                ELSE IF newTaskOk THEN "" ELSE "NewTask"]
        /\ IF check = ""
           THEN /\ SetDB(StartSyncCloudProviderInfoTask(DB, p, sr, newTaskOk))
                /\ ptasks' = IF newTaskOk
                             THEN ptasks \cup {NewProviderTask(nTasks + 1, p, sr, "")}
                             ELSE ptasks
                /\ nTasks' = IF newTaskOk THEN nTasks + 1 ELSE nTasks
                /\ nFaults' = IF newTaskOk THEN nFaults ELSE nFaults + 1
           ELSE UNCHANGED <<account, providers, cprs, ptasks, nTasks, nFaults>>
        /\ UNCHANGED <<atask, rsub, nSyncs>>

\* Whether a call of markEndSyncWithLock on d meets the storage fault.
FaultHit(d, p, fault) ==
    CASE fault = "none" -> TRUE
      [] fault = "count" -> d.providers[p].sync_status # IDLE
      [] fault = "update" -> /\ d.providers[p].sync_status # IDLE
                             /\ getSyncStatus2(d, p, FALSE) = IDLE
      [] fault = "regions" -> FALSE

\* The bindings syncCloudproviderRegions submits a sub-task for. fault
\* "regions": the query of GetRegionIds fails; its error is discarded and
\* regionIds is nil.
SubmitSet(d, p, sr, fault) ==
    LET regionIds == IF fault = "regions" THEN {} ELSE GetRegionIds(sr)
    IN  {r \in DOMAIN d.cprs[p] : /\ d.cprs[p][r].enabled
                         /\ CprCanSync(d.cprs[p][r])
                         /\ (regionIds = {} \/ r \in regionIds)}

\* SCloudproviderregion.submitSyncTask: the binding is recorded as queued.
CprSubmitSyncTask(row) == [row EXCEPT !.sync_status = QUEUED]

\* syncCloudproviderRegions without the end of sync when nothing is submitted.
syncCloudproviderRegions_NoEnd(d, p, sr, fault) ==
    LET d1 == markSyncing(d, p)
        sub == SubmitSet(d1, p, sr, fault)
    IN  [d1 EXCEPT !.cprs[p] = [r \in DOMAIN d.cprs[p] |->
            IF r \in sub THEN CprSubmitSyncTask(d1.cprs[p][r]) ELSE d1.cprs[p][r]]]

syncCloudproviderRegions(d, p, sr, fault) ==
    LET d1 == markSyncing(d, p)
        sub == SubmitSet(d1, p, sr, fault)
        d2 == [d1 EXCEPT !.cprs[p] = [r \in DOMAIN d.cprs[p] |->
                  IF r \in sub THEN CprSubmitSyncTask(d1.cprs[p][r]) ELSE d1.cprs[p][r]]]
    IN  IF Cardinality(sub) = 0 THEN markEndSyncWithLock(d2, p, fault) ELSE d2

\* The notification of the parent task when a sub-task ends.
NotifyParent(t, failed) ==
    IF t.parent = "" THEN atask
    ELSE [atask EXCEPT !.subtasks = @ \ {t.id}, !.subfailed = @ \/ failed]

\* CloudProviderSyncInfoTask runs: SyncCallSyncCloudproviderRegions, then the
\* task completes. The WaitGroup of SyncCallSyncCloudproviderRegions is
\* incremented before and decremented right after each submitSyncTask, so
\* wg.Wait() finds it at zero when the loop of submissions ends: the call
\* returns with the submitted sub-tasks (rsub) still to run.
ProviderTaskRun(t, fault) ==
    LET p == t.provider
        d1 == markSyncing(DB, p)
        sub == SubmitSet(d1, p, t.sync_range, fault)
    IN  /\ t \in ptasks
        /\ fault \in {"count", "update"} => /\ nFaults < MaxFaults
                                            /\ sub = {}
                                            /\ FaultHit(d1, p, fault)
        /\ fault = "regions" => /\ nFaults < MaxFaults
                                /\ GetRegionIds(t.sync_range) # {}
        /\ SetDB(syncCloudproviderRegions(DB, p, t.sync_range, fault))
        /\ rsub' = [rsub EXCEPT ![p] = [r \in RegionsOf(p) |->
                        IF r \in sub THEN rsub[p][r] + 1 ELSE rsub[p][r]]]
        /\ ptasks' = ptasks \ {t}
        /\ atask' = NotifyParent(t, FALSE)
        /\ nFaults' = nFaults + FaultCost(fault)
        /\ UNCHANGED zvars
        /\ lastCall' = IF sub = {}
                       THEN EndCall(d1, p, fault) @@ [caller |-> "syncCloudproviderRegions"]
                       ELSE NoCall
        /\ UNCHANGED <<nTasks, nSyncs>>

\* CloudProviderSyncInfoTask fails before the fan-out: the pass is aborted,
\* the bindings still queuing are reverted and the provider is driven to idle.
ProviderTaskFail(t) ==
    LET p == t.provider
        d1 == [DB EXCEPT !.cprs[p] = [r \in RegionsOf(p) |-> CprCancelStartingSync(cprs[p][r])]]
    IN  /\ t \in ptasks
        /\ SetDB(markEndSyncWithLock(d1, p, "none"))
        /\ ptasks' = ptasks \ {t}
        /\ atask' = NotifyParent(t, TRUE)
        /\ UNCHANGED zvars
        /\ lastCall' = EndCall(d1, p, "none")
        /\ UNCHANGED <<rsub, nTasks, nSyncs, nFaults>>

\* A submitted region sub-task starts: the binding is syncing.
RegionTaskStart(p, r) ==
    /\ rsub[p][r] > 0
    /\ cprs[p][r].sync_status # SYNCING
    /\ cprs' = [cprs EXCEPT ![p][r].sync_status = SYNCING]
    /\ UNCHANGED zvars
    /\ lastCall' = NoCall
    /\ UNCHANGED <<account, providers, atask, ptasks, rsub, nTasks, nSyncs, nFaults>>

\* A region sub-task ends: the binding is idle and the completion is rolled
\* up with the provider's markEndSyncWithLock.
RegionTaskEnd(p, r, fault) ==
    LET d1 == [DB EXCEPT !.cprs[p][r].sync_status = IDLE]
    IN  /\ rsub[p][r] > 0
        /\ cprs[p][r].sync_status = SYNCING
        /\ fault # "none" => nFaults < MaxFaults /\ FaultHit(d1, p, fault)
        /\ SetDB(markEndSyncWithLock(d1, p, fault))
        /\ rsub' = [rsub EXCEPT ![p][r] = @ - 1]
        /\ nFaults' = nFaults + FaultCost(fault)
        /\ UNCHANGED zvars
        /\ lastCall' = EndCall(d1, p, fault)
        /\ UNCHANGED <<atask, ptasks, nTasks, nSyncs>>

(***************************************************************************)
(* CloudAccountSyncInfoTask                                                *)
(***************************************************************************)
\* The sync range of a task's params: full and deep when none was given.
TaskSyncRange(params) ==
    IF params = Nil
    THEN [NewSyncRange(TRUE, FALSE, <<>>, <<>>, <<>>, <<>>) EXCEPT !.deep_sync = TRUE]
    ELSE params

RECURSIVE MarkStartingAll(_, _, _)
MarkStartingAll(d, ps, sr) ==
    IF ps = {} THEN d
    ELSE LET p == CHOOSE x \in ps : TRUE
         IN  MarkStartingAll(markStartingSync(d, p, sr), ps \ {p}, sr)

AccountSyncInputs == {Nil, NewSyncRange(FALSE, TRUE, <<>>, <<>>, <<>>, <<>>)}

\* The account-level sync request: admitted if the account is enabled and idle
\* (or forced); the account is recorded as queued and the request propagates
\* to the enabled providers, which are queuing.
StartSyncCloudAccountInfoTask(params) ==
    LET sr == TaskSyncRange(params)
    IN  /\ atask.stage \in {"none", "complete", "failed"}
        /\ nSyncs < MaxAccountSyncs
        /\ account.enabled
        /\ account.sync_status = IDLE \/ sr.force
        /\ SetDB(MarkStartingAll([DB EXCEPT !.account.sync_status = QUEUED],
                                 GetEnabledCloudproviders(DB), sr))
        /\ atask' = [NoTask EXCEPT !.stage = "init", !.sync_range = params]
        /\ nSyncs' = nSyncs + 1
        /\ UNCHANGED zvars
        /\ lastCall' = NoCall
        /\ UNCHANGED <<ptasks, rsub, nTasks, nFaults>>

OnInit ==
    /\ atask.stage = "init"
    /\ atask' = [atask EXCEPT !.log = Append(@, ACT_SYNCING_HOST),
                              !.stage = "OnCloudaccountSyncReady",
                              !.result = "pending"]
    /\ UNCHANGED zvars
    /\ lastCall' = NoCall
    /\ UNCHANGED <<account, providers, cprs, ptasks, rsub, nTasks, nSyncs, nFaults>>

\* The closure OnInit hands to taskman.LocalTaskRun. ok: SyncCallSyncAccountTask
\* returned no error.
OnInitLocalTaskRun(ok) ==
    /\ atask.stage = "OnCloudaccountSyncReady"
    /\ atask.result = "pending"
    /\ IF ok
       THEN /\ atask' = [atask EXCEPT !.result = "ok"]
            /\ UNCHANGED <<account, providers, cprs>>
       ELSE /\ SetDB(AccountMarkEndSyncWithLock(DB))
            /\ atask' = [atask EXCEPT !.result = "err"]
    /\ UNCHANGED zvars
    /\ lastCall' = NoCall
    /\ UNCHANGED <<ptasks, rsub, nTasks, nSyncs, nFaults>>

OnCloudaccountSyncReadyFailed ==
    /\ atask.stage = "OnCloudaccountSyncReady"
    /\ atask.result = "err"
    /\ atask' = [atask EXCEPT !.log = Append(@, ACT_SYNC_HOST_FAILED),
                              !.stage = "failed"]
    /\ UNCHANGED zvars
    /\ lastCall' = NoCall
    /\ UNCHANGED <<account, providers, cprs, ptasks, rsub, nTasks, nSyncs, nFaults>>

\* OnCloudaccountSyncComplete setting the stage without the event.
SyncCompleteTask_NoEvent(t) == [t EXCEPT !.stage = "complete"]

\* The body of OnCloudaccountSyncComplete on task record t.
SyncCompleteTask(t) ==
    [t EXCEPT !.log = Append(@, ACT_SYNC_HOST_COMPLETE), !.stage = "complete"]

RECURSIVE StartAll(_, _, _, _)
StartAll(d, ps, sr, okset) ==
    IF ps = {} THEN d
    ELSE LET p == CHOOSE x \in ps : TRUE
         IN  StartAll(StartSyncCloudProviderInfoTask(d, p, sr, p \in okset),
                      ps \ {p}, sr, okset)

RECURSIVE NewTasks(_, _, _)
NewTasks(ps, sr, n) ==
    IF ps = {} THEN {}
    ELSE LET p == CHOOSE x \in ps : TRUE
         IN  {NewProviderTask(n + 1, p, sr, "atask")} \cup NewTasks(ps \ {p}, sr, n + 1)

\* The handler fails the task when SyncCloudaccountResources returns an error.
OnCloudaccountSyncReady_FailOnError(okset, resErr) ==
    LET sr == TaskSyncRange(atask.sync_range)
    IN  /\ atask.stage = "OnCloudaccountSyncReady"
        /\ atask.result = "ok"
        /\ okset = {}
        /\ resErr
        /\ NeedSyncInfo(sr)
        /\ lastCall' = [op |-> "SyncCloudaccountResources", err |-> "error"]
        /\ atask' = [atask EXCEPT !.stage = "failed", !.synced = TRUE]
        /\ UNCHANGED <<account, providers, cprs, ptasks, rsub, nTasks, nSyncs, nFaults>>
        /\ UNCHANGED zvars

\* CloudAccountSyncInfoTask.OnCloudaccountSyncReady. okset: the enabled
\* providers whose NewTask succeeds; resErr: SyncCloudaccountResources returns
\* an error, which is logged.
OnCloudaccountSyncReady(okset, resErr) ==
    LET sr == TaskSyncRange(atask.sync_range)
        cloudproviders == GetEnabledCloudproviders(DB)
        new == NewTasks(okset, sr, nTasks)
    IN  /\ atask.stage = "OnCloudaccountSyncReady"
        /\ atask.result = "ok"
        /\ okset \subseteq cloudproviders
        /\ UNCHANGED zvars
        /\ resErr => NeedSyncInfo(sr)
        /\ lastCall' = IF resErr THEN [op |-> "SyncCloudaccountResources", err |-> "error"]
                       ELSE NoCall
        /\ UNCHANGED <<rsub, nSyncs>>
        /\ IF ~NeedSyncInfo(sr)
           THEN /\ okset = {}
                /\ SetDB(AccountMarkEndSyncWithLock(DB))
                /\ atask' = SyncCompleteTask(atask)
                /\ UNCHANGED <<ptasks, nTasks, nFaults>>
           ELSE IF Cardinality(cloudproviders) = 0
           THEN /\ okset = {}
                /\ SetDB(AccountMarkEndSyncWithLock(DB))
                /\ atask' = SyncCompleteTask([atask EXCEPT !.synced = TRUE])
                /\ UNCHANGED <<ptasks, nTasks, nFaults>>
           ELSE /\ nTasks + Cardinality(okset) <= MaxTasks
                /\ nFaults + Cardinality(cloudproviders \ okset) <= MaxFaults
                /\ SetDB(StartAll(DB, cloudproviders, sr, okset))
                /\ atask' = [atask EXCEPT !.stage = "on_cloudaccount_sync_complete",
                                          !.synced = TRUE,
                                          !.result = "",
                                          !.subtasks = {t.id : t \in new},
                                          !.created = Cardinality(new)]
                /\ ptasks' = ptasks \cup new
                /\ nTasks' = nTasks + Cardinality(okset)
                /\ nFaults' = nFaults + Cardinality(cloudproviders \ okset)

\* Every sub-task of the task has ended and none failed.
OnCloudaccountSyncComplete ==
    /\ atask.stage = "on_cloudaccount_sync_complete"
    /\ atask.created > 0 /\ atask.subtasks = {} /\ ~atask.subfailed
    /\ SetDB(AccountMarkEndSyncWithLock(DB))
    /\ atask' = SyncCompleteTask(atask)
    /\ UNCHANGED zvars
    /\ lastCall' = NoCall
    /\ UNCHANGED <<ptasks, rsub, nTasks, nSyncs, nFaults>>

\* Every sub-task of the task has ended and one failed.
OnCloudaccountSyncCompleteFailed ==
    /\ atask.stage = "on_cloudaccount_sync_complete"
    /\ atask.created > 0 /\ atask.subtasks = {} /\ atask.subfailed
    /\ SetDB(AccountMarkEndSyncWithLock(DB))
    /\ atask' = [atask EXCEPT !.log = Append(@, ACT_SYNC_HOST_FAILED),
                              !.stage = "failed"]
    /\ UNCHANGED zvars
    /\ lastCall' = NoCall
    /\ UNCHANGED <<ptasks, rsub, nTasks, nSyncs, nFaults>>

(***************************************************************************)
(* The specification of the sync state machine and the orchestration.      *)
(***************************************************************************)
(***************************************************************************)
(* The resource synchronizer: SZoneManager.SyncZones and                   *)
(* SCloudprovider.SyncInterVpcNetwork.                                     *)
(***************************************************************************)
\* The goroutines that run sync passes.
Procs == {1, 2}

ZONES == "zones"
INTERVPC == "interVpcNetwork"

\* The parents passes run for: the regions for zones, provider p1 for
\* inter-VPC networks.
ParentsOf(kind) == IF kind = ZONES THEN Regions ELSE {"p1"}

\* A name: the hint and the suffix db.GenerateName appended (0: none).
Name(hint) == <<hint, 0>>

\* A row of zones_tbl (SZone) or of intervpcnetworks_tbl (SInterVpcNetwork);
\* parent is CloudregionId or ManagerId, in_use whether GeneralUsage is not empty.
Row(id, ext, name, status, emulated, parent, inuse) ==
    [id |-> id, external_id |-> ext, name |-> name, status |-> status,
     is_emulated |-> emulated, parent |-> parent, in_use |-> inuse, i18n |-> TRUE]

\* A cloudprovider.ICloudZone / ICloudInterVpcNetwork of the remote list.
Ext(ext, name, status, emulated) ==
    [external_id |-> ext, name |-> name, status |-> status, is_emulated |-> emulated]

\* The remote lists the passes are called with.
RemoteLists(kind) ==
    IF kind = ZONES
    THEN {<<>>,
          <<Ext(3, "a", "enable", FALSE), Ext(2, "b", "soon", TRUE)>>,
          <<Ext(1, "a", "enable", FALSE)>>}
    ELSE {<<>>, <<Ext(2, "n", "available", FALSE), Ext(1, "m", "available", FALSE)>>}

\* lockman.LockRawObject keys.
LockKey(kind, parent) ==
    IF kind = ZONES THEN <<"zones", parent>>
    ELSE <<"cloudprovider", parent, "interVpcNetwork">>

\* compare.SyncResult
NoResult == [add |-> 0, add_err |-> 0, update |-> 0, update_err |-> 0,
             delete |-> 0, delete_err |-> 0, err |-> FALSE]

NoPass == [pc |-> "idle", kind |-> "", parent |-> "", remote |-> <<>>, local |-> <<>>,
           removed |-> <<>>, commondb |-> <<>>, commonext |-> <<>>, added |-> <<>>,
           i |-> 0, result |-> NoResult, repeat |-> FALSE, returned |-> <<>>,
           localZones |-> <<>>]

NoLast == [valid |-> FALSE, remote |-> <<>>]

Table(kind) == IF kind = ZONES THEN zones ELSE nets

\* region.GetZones() / provider.GetInterVpcNetworks(): the rows of the parent,
\* in the order of their ids.
RECURSIVE RowsById(_)
RowsById(rows) ==
    IF rows = {} THEN <<>>
    ELSE LET x == CHOOSE y \in rows : \A z \in rows : y.id <= z.id
         IN  <<x>> \o RowsById(rows \ {x})

GetRows(kind, parent) == RowsById({x \in Table(kind) : x.parent = parent})

\* The merge of compare.CompareSets over the two lists sorted by key.
RECURSIVE CompareMerge(_, _, _)
CompareMerge(db, ext, acc) ==
    IF db = <<>> /\ ext = <<>> THEN acc
    ELSE IF db = <<>>
         THEN CompareMerge(db, Tail(ext), [acc EXCEPT !.added = Append(@, Head(ext))])
    ELSE IF ext = <<>>
         THEN CompareMerge(Tail(db), ext, [acc EXCEPT !.removed = Append(@, Head(db))])
    ELSE IF Head(db).external_id = Head(ext).external_id
         THEN CompareMerge(Tail(db), Tail(ext),
                           [acc EXCEPT !.commondb = Append(@, Head(db)),
                                       !.commonext = Append(@, Head(ext))])
    ELSE IF Head(db).external_id < Head(ext).external_id
         THEN CompareMerge(Tail(db), ext, [acc EXCEPT !.removed = Append(@, Head(db))])
    ELSE CompareMerge(db, Tail(ext), [acc EXCEPT !.added = Append(@, Head(ext))])

\* compare.CompareSets(dbSet, extSet, &removed, &commonDB, &commonExt, &added)
CompareSets(dbSet, extSet) ==
    CompareMerge(SortSeq(dbSet, LAMBDA a, b : a.external_id < b.external_id),
                 SortSeq(extSet, LAMBDA a, b : a.external_id < b.external_id),
                 [removed |-> <<>>, commondb |-> <<>>, commonext |-> <<>>, added |-> <<>>])

\* The call of CompareSets with the arguments exchanged.
SyncCompare_Swapped(dbRows, extList) ==
    LET c == CompareSets(extList, dbRows)
    IN  [removed |-> c.removed, commondb |-> c.commonext,
         commonext |-> c.commondb, added |-> c.added]

\* The call of CompareSets by SyncZones / SyncInterVpcNetwork.
SyncCompare(dbRows, extList) == CompareSets(dbRows, extList)

\* db.GenerateName: the hint, or the hint with the first suffix no row uses.
GenerateName(rows, hint) ==
    LET used == {x.name : x \in rows}
        n == CHOOSE k \in 0..Cardinality(rows) :
                 /\ <<hint, k>> \notin used
                 /\ \A j \in 0..(k - 1) : <<hint, j>> \in used
    IN  <<hint, n>>

\* SZone.ValidateDeleteCondition
ValidateDeleteCondition(row) == ~row.in_use

\* syncRemoveCloudZone that returns nil without deleting the row.
syncRemoveCloudZone_Keep(rows, row, fault) ==
    IF ~ValidateDeleteCondition(row) THEN [rows |-> rows, err |-> TRUE]
    ELSE IF fault # "none" THEN [rows |-> rows, err |-> TRUE]
    ELSE [rows |-> rows, err |-> FALSE]

\* self.RemoveI18ns: the localized names of the row are deleted.
RemoveI18ns(rows, row) ==
    {IF x.id = row.id THEN [x EXCEPT !.i18n = FALSE] ELSE x : x \in rows}

\* syncRemoveCloudZone with the localized names removed before the check.
syncRemoveCloudZone_RemoveFirst(rows, row, fault) ==
    IF ~ValidateDeleteCondition(row) THEN [rows |-> RemoveI18ns(rows, row), err |-> TRUE]
    ELSE IF fault # "none" THEN [rows |-> RemoveI18ns(rows, row), err |-> TRUE]
    ELSE [rows |-> {x \in rows : x.id # row.id}, err |-> FALSE]

\* SZone.syncRemoveCloudZone on table rows: the table after it and whether it
\* returned an error. fault: Delete fails, after RemoveI18ns.
syncRemoveCloudZone(rows, row, fault) ==
    IF ~ValidateDeleteCondition(row) THEN [rows |-> rows, err |-> TRUE]
    ELSE IF fault # "none" THEN [rows |-> RemoveI18ns(rows, row), err |-> TRUE]
    ELSE [rows |-> {x \in rows : x.id # row.id}, err |-> FALSE]

\* syncWithCloudZone without the copy of the status.
syncWithCloudZone_NoStatus(rows, row, ext, parent, fault) ==
    IF fault # "none" THEN [rows |-> rows, err |-> TRUE]
    ELSE [rows |-> {IF x.id = row.id
                    THEN [x EXCEPT !.name = Name(ext.name),
                                   !.is_emulated = ext.is_emulated,
                                   !.parent = parent]
                    ELSE x : x \in rows},
          err |-> FALSE]

\* SZone.syncWithCloudZone. fault: SyncI18ns ("i18n") or UpdateWithLock
\* ("update") fails.
syncWithCloudZone(rows, row, ext, parent, fault) ==
    IF fault # "none" THEN [rows |-> rows, err |-> TRUE]
    ELSE [rows |-> {IF x.id = row.id
                    THEN [x EXCEPT !.name = Name(ext.name),
                                   !.status = ext.status,
                                   !.is_emulated = ext.is_emulated,
                                   !.parent = parent,
                                   !.i18n = TRUE]
                    ELSE x : x \in rows},
          err |-> FALSE]

\* newFromCloudZone without the external id.
newFromCloudZone_NoExternalId(rows, id, ext, parent, fault) ==
    IF fault = "insert" THEN [rows |-> rows, err |-> TRUE]
    ELSE [rows |-> rows \cup {Row(id, 0, GenerateName(rows, ext.name), ext.status,
                                  ext.is_emulated, parent, FALSE)},
          err |-> fault = "i18n"]

\* SZoneManager.newFromCloudZone. fault: GenerateName / Insert ("insert")
\* fails, or SyncI18ns ("i18n") fails after the row is inserted.
newFromCloudZone(rows, id, ext, parent, fault) ==
    IF fault = "insert" THEN [rows |-> rows, err |-> TRUE]
    ELSE [rows |-> rows \cup {[Row(id, ext.external_id, GenerateName(rows, ext.name),
                                   ext.status, ext.is_emulated, parent, FALSE)
                                  EXCEPT !.i18n = fault # "i18n"]},
          err |-> fault = "i18n"]

\* SInterVpcNetwork.syncRemove, SyncWithCloudInterVpcNetwork and
\* newFromCloudInterVpcNetwork.
NetSyncRemove(rows, row, fault) ==
    IF fault # "none" THEN [rows |-> rows, err |-> TRUE]
    ELSE [rows |-> {x \in rows : x.id # row.id}, err |-> FALSE]

NetSyncWith(rows, row, ext, fault) ==
    IF fault # "none" THEN [rows |-> rows, err |-> TRUE]
    ELSE [rows |-> {IF x.id = row.id
                    THEN [x EXCEPT !.name = Name(ext.name), !.status = ext.status]
                    ELSE x : x \in rows},
          err |-> FALSE]

NetNewFrom(rows, id, ext, parent, fault) ==
    IF fault # "none" THEN [rows |-> rows, err |-> TRUE]
    ELSE [rows |-> rows \cup {Row(id, ext.external_id, GenerateName(rows, ext.name),
                                  ext.status, FALSE, parent, FALSE)},
          err |-> FALSE]

\* The position of a pass after item i of a loop: the next item, the next
\* loop that has an item, or the return.
RECURSIVE Settle(_)
Settle(ps) ==
    IF ps.pc = "remove" /\ ps.i > Len(ps.removed) THEN Settle([ps EXCEPT !.pc = "update", !.i = 1])
    ELSE IF ps.pc = "update" /\ ps.i > Len(ps.commondb) THEN Settle([ps EXCEPT !.pc = "add", !.i = 1])
    ELSE IF ps.pc = "add" /\ ps.i > Len(ps.added) THEN [ps EXCEPT !.pc = "done", !.i = 0]
    ELSE ps

SetTable(kind, rows) ==
    IF kind = ZONES THEN zones' = rows /\ UNCHANGED nets
    ELSE nets' = rows /\ UNCHANGED zones

ZFaultCost(fault) == IF fault = "none" THEN 0 ELSE 1

\* lockman.LockRawObject returns only while no one else holds the key.
CanLock(key) == key \notin zlocks

\* The pass takes the lock of its parent without waiting for it to be free.
SyncLock_NoWait(pr, kind, parent, remote) ==
    /\ zpass[pr].pc = "idle"
    /\ nPasses < MaxPasses
    /\ zlocks' = zlocks \cup {LockKey(kind, parent)}
    /\ zpass' = [zpass EXCEPT ![pr] =
                    [NoPass EXCEPT !.pc = "fetch", !.kind = kind, !.parent = parent,
                                   !.remote = remote,
                                   !.repeat = /\ zlast[kind][parent].valid
                                              /\ zlast[kind][parent].remote = remote]]
    /\ nPasses' = nPasses + 1
    /\ UNCHANGED <<zones, nets, zlast, nZFaults, nextId>>
    /\ UNCHANGED svars

\* SyncZones / SyncInterVpcNetwork is called and lockman.LockRawObject returns:
\* no other pass holds the key.
SyncLock(pr, kind, parent, remote) ==
    /\ zpass[pr].pc = "idle"
    /\ nPasses < MaxPasses
    /\ CanLock(LockKey(kind, parent))
    /\ zlocks' = zlocks \cup {LockKey(kind, parent)}
    /\ zpass' = [zpass EXCEPT ![pr] =
                    [NoPass EXCEPT !.pc = "fetch", !.kind = kind, !.parent = parent,
                                   !.remote = remote,
                                   !.repeat = /\ zlast[kind][parent].valid
                                              /\ zlast[kind][parent].remote = remote]]
    /\ nPasses' = nPasses + 1
    /\ UNCHANGED <<zones, nets, zlast, nZFaults, nextId>>
    /\ UNCHANGED svars

\* The pass records the error of the fetch and goes on to the comparison.
SyncFetch_Continue(pr, ok) ==
    LET ps == zpass[pr]
    IN  /\ ps.pc = "fetch"
        /\ ok \/ nZFaults < MaxZoneFaults
        /\ zpass' = [zpass EXCEPT ![pr] =
                        IF ok THEN [ps EXCEPT !.pc = "compare", !.local = GetRows(ps.kind, ps.parent)]
                        ELSE [ps EXCEPT !.pc = "compare", !.result.err = TRUE]]
        /\ nZFaults' = IF ok THEN nZFaults ELSE nZFaults + 1
        /\ UNCHANGED <<zones, nets, zlocks, zlast, nPasses, nextId>>
        /\ UNCHANGED svars

\* region.GetZones() / self.GetInterVpcNetworks(); on error the pass returns
\* the error in its result.
SyncFetch(pr, ok) ==
    LET ps == zpass[pr]
    IN  /\ ps.pc = "fetch"
        /\ ok \/ nZFaults < MaxZoneFaults
        /\ zpass' = [zpass EXCEPT ![pr] =
                        IF ok THEN [ps EXCEPT !.pc = "compare", !.local = GetRows(ps.kind, ps.parent)]
                        ELSE [ps EXCEPT !.pc = "done", !.result.err = TRUE]]
        /\ nZFaults' = IF ok THEN nZFaults ELSE nZFaults + 1
        /\ UNCHANGED <<zones, nets, zlocks, zlast, nPasses, nextId>>
        /\ UNCHANGED svars

\* compare.CompareSets is called; on error the pass returns the error in its
\* result and nil lists.
SyncCompareStep(pr, ok) ==
    LET ps == zpass[pr]
        c == SyncCompare(ps.local, ps.remote)
    IN  /\ ps.pc = "compare"
        /\ ok \/ nZFaults < MaxZoneFaults
        /\ zpass' = [zpass EXCEPT ![pr] =
                        IF ok
                        THEN Settle([ps EXCEPT !.pc = "remove", !.i = 1,
                                               !.removed = c.removed, !.commondb = c.commondb,
                                               !.commonext = c.commonext, !.added = c.added])
                        ELSE [ps EXCEPT !.pc = "done", !.result.err = TRUE]]
        /\ nZFaults' = IF ok THEN nZFaults ELSE nZFaults + 1
        /\ UNCHANGED <<zones, nets, zlocks, zlast, nPasses, nextId>>
        /\ UNCHANGED svars

\* The loop over removed returns at the first error.
SyncRemove_AbortOnError(pr, fault) ==
    LET ps == zpass[pr]
        row == ps.removed[ps.i]
        res == IF ps.kind = ZONES THEN syncRemoveCloudZone(Table(ps.kind), row, fault)
               ELSE NetSyncRemove(Table(ps.kind), row, fault)
    IN  /\ ps.pc = "remove"
        /\ fault \in {"none", "delete"}
        /\ fault # "none" => /\ nZFaults < MaxZoneFaults
                             /\ ps.kind = ZONES => ValidateDeleteCondition(row)
        /\ SetTable(ps.kind, res.rows)
        /\ zpass' = [zpass EXCEPT ![pr] =
                        IF res.err
                        THEN [ps EXCEPT !.pc = "done", !.i = 0, !.result.delete_err = @ + 1]
                        ELSE Settle([ps EXCEPT !.i = @ + 1, !.result.delete = @ + 1])]
        /\ nZFaults' = nZFaults + ZFaultCost(fault)
        /\ UNCHANGED <<zlocks, zlast, nPasses, nextId>>
        /\ UNCHANGED svars

\* One round of the loop over removed.
SyncRemove(pr, fault) ==
    LET ps == zpass[pr]
        row == ps.removed[ps.i]
        res == IF ps.kind = ZONES THEN syncRemoveCloudZone(Table(ps.kind), row, fault)
               ELSE NetSyncRemove(Table(ps.kind), row, fault)
    IN  /\ ps.pc = "remove"
        /\ fault \in {"none", "delete"}
        /\ fault # "none" => /\ nZFaults < MaxZoneFaults
                             /\ ps.kind = ZONES => ValidateDeleteCondition(row)
        /\ SetTable(ps.kind, res.rows)
        /\ zpass' = [zpass EXCEPT ![pr] =
                        Settle([ps EXCEPT !.i = @ + 1,
                                          !.result.delete = IF res.err THEN @ ELSE @ + 1,
                                          !.result.delete_err = IF res.err THEN @ + 1 ELSE @])]
        /\ nZFaults' = nZFaults + ZFaultCost(fault)
        /\ UNCHANGED <<zlocks, zlast, nPasses, nextId>>
        /\ UNCHANGED svars

\* One round of the loop over commondb.
SyncUpdate(pr, fault) ==
    LET ps == zpass[pr]
        row == ps.commondb[ps.i]
        ext == ps.commonext[ps.i]
        res == IF ps.kind = ZONES
               THEN syncWithCloudZone(Table(ps.kind), row, ext, ps.parent, fault)
               ELSE NetSyncWith(Table(ps.kind), row, ext, fault)
    IN  /\ ps.pc = "update"
        /\ fault \in {"none", "update"}
        /\ fault # "none" => nZFaults < MaxZoneFaults
        /\ SetTable(ps.kind, res.rows)
        /\ zpass' = [zpass EXCEPT ![pr] =
                        Settle([ps EXCEPT !.i = @ + 1,
                                          !.returned = IF res.err THEN @ ELSE Append(@, ext.external_id),
                                          !.localZones = IF res.err THEN @ ELSE Append(@, row.id),
                                          !.result.update = IF res.err THEN @ ELSE @ + 1,
                                          !.result.update_err = IF res.err THEN @ + 1 ELSE @])]
        /\ nZFaults' = nZFaults + ZFaultCost(fault)
        /\ UNCHANGED <<zlocks, zlast, nPasses, nextId>>
        /\ UNCHANGED svars

\* One round of the loop over added that counts the add but appends the
\* remote record only.
SyncAdd_RemoteOnly(pr, fault) ==
    LET ps == zpass[pr]
        ext == ps.added[ps.i]
        res == IF ps.kind = ZONES
               THEN newFromCloudZone(Table(ps.kind), nextId + 1, ext, ps.parent, fault)
               ELSE NetNewFrom(Table(ps.kind), nextId + 1, ext, ps.parent, fault)
    IN  /\ ps.pc = "add"
        /\ fault \in {"none", "insert", "i18n"}
        /\ fault = "i18n" => ps.kind = ZONES
        /\ fault # "none" => nZFaults < MaxZoneFaults
        /\ SetTable(ps.kind, res.rows)
        /\ nextId' = IF res.rows = Table(ps.kind) THEN nextId ELSE nextId + 1
        /\ zpass' = [zpass EXCEPT ![pr] =
                        Settle([ps EXCEPT !.i = @ + 1,
                                          !.returned = Append(@, ext.external_id),
                                          !.result.add = IF res.err THEN @ ELSE @ + 1,
                                          !.result.add_err = IF res.err THEN @ + 1 ELSE @])]
        /\ nZFaults' = nZFaults + ZFaultCost(fault)
        /\ UNCHANGED <<zlocks, zlast, nPasses>>
        /\ UNCHANGED svars

\* One round of the loop over added.
SyncAdd(pr, fault) ==
    LET ps == zpass[pr]
        ext == ps.added[ps.i]
        res == IF ps.kind = ZONES
               THEN newFromCloudZone(Table(ps.kind), nextId + 1, ext, ps.parent, fault)
               ELSE NetNewFrom(Table(ps.kind), nextId + 1, ext, ps.parent, fault)
    IN  /\ ps.pc = "add"
        /\ fault \in {"none", "insert", "i18n"}
        /\ fault = "i18n" => ps.kind = ZONES
        /\ fault # "none" => nZFaults < MaxZoneFaults
        /\ SetTable(ps.kind, res.rows)
        /\ nextId' = IF res.rows = Table(ps.kind) THEN nextId ELSE nextId + 1
        /\ zpass' = [zpass EXCEPT ![pr] =
                        Settle([ps EXCEPT !.i = @ + 1,
                                          !.returned = IF res.err THEN @ ELSE Append(@, ext.external_id),
                                          !.localZones = IF res.err THEN @ ELSE Append(@, nextId + 1),
                                          !.result.add = IF res.err THEN @ ELSE @ + 1,
                                          !.result.add_err = IF res.err THEN @ + 1 ELSE @])]
        /\ nZFaults' = nZFaults + ZFaultCost(fault)
        /\ UNCHANGED <<zlocks, zlast, nPasses>>
        /\ UNCHANGED svars

\* Whether a result reports no error.
Clean(result) ==
    /\ ~result.err
    /\ result.add_err = 0 /\ result.update_err = 0 /\ result.delete_err = 0

\* The pass returns its result and the deferred ReleaseRawObject runs.
SyncReturn(pr) ==
    LET ps == zpass[pr]
    IN  /\ ps.pc = "done"
        /\ zlocks' = zlocks \ {LockKey(ps.kind, ps.parent)}
        /\ zlast' = [zlast EXCEPT ![ps.kind][ps.parent] =
                        [valid |-> Clean(ps.result), remote |-> ps.remote]]
        /\ zpass' = [zpass EXCEPT ![pr] = NoPass]
        /\ UNCHANGED <<zones, nets, nPasses, nZFaults, nextId>>
        /\ UNCHANGED svars

\* No call of Normalize and none of GetProjectMapping is made.
NoNorm == [pc |-> "idle", in |-> NewSyncRange(FALSE, FALSE, <<>>, <<>>, <<>>, <<>>),
           out |-> NewSyncRange(FALSE, FALSE, <<>>, <<>>, <<>>, <<>>), err |-> NoErr]
NoPmCall == [pc |-> "idle"]

\* No sync pass runs: the state of the synchronizer in the runs of Spec.
ZQuiet ==
    /\ zones = {}
    /\ nets = {}
    /\ zlocks = {}
    /\ zpass = [pr \in Procs |-> NoPass]
    /\ zlast = [k \in {ZONES, INTERVPC} |-> [p \in ParentsOf(k) |-> NoLast]]
    /\ nPasses = 0
    /\ nZFaults = 0
    /\ nextId = 0

\* The sets of enabled bindings the runs start from: all, none, or all but
\* the binding of p1 to r1.
EnabledBindings ==
    {{pr \in Providers \X Regions : pr[2] \in RegionsOf(pr[1])},
     {},
     {<<"p1", "r2">>, <<"p2", "r1">>}}

Init ==
    /\ account \in {[enabled |-> e, sync_status |-> IDLE] : e \in BOOLEAN}
    /\ providers \in [Providers -> {[enabled |-> e, sync_status |-> IDLE,
                                        last_sync |-> ZeroTime,
                                        last_sync_end_at |-> ZeroTime] : e \in BOOLEAN}]
    /\ \E en \in EnabledBindings :
          cprs = [p \in Providers |-> [r \in RegionsOf(p) |->
                     [enabled |-> <<p, r>> \in en, sync_status |-> IDLE]]]
    /\ atask = NoTask
    /\ ptasks = {}
    /\ rsub = [p \in Providers |-> [r \in RegionsOf(p) |-> 0]]
    /\ nTasks = 0
    /\ nSyncs = 0
    /\ nFaults = 0
    /\ lastCall = NoCall
    /\ ZQuiet
    /\ norm = NoNorm
    /\ pmc = NoPmCall
    /\ pmStore = <<>>
    /\ pmCaches = <<>>

Next ==
    \/ \E p \in Providers, input \in SyncRangeInputs, ok \in BOOLEAN : PerformSync(p, input, ok)
    \/ \E params \in AccountSyncInputs : StartSyncCloudAccountInfoTask(params)
    \/ OnInit
    \/ \E ok \in BOOLEAN : OnInitLocalTaskRun(ok)
    \/ OnCloudaccountSyncReadyFailed
    \/ \E okset \in SUBSET Providers, resErr \in BOOLEAN :
          OnCloudaccountSyncReady(okset, resErr)
    \/ OnCloudaccountSyncComplete
    \/ OnCloudaccountSyncCompleteFailed
    \/ \E t \in ptasks, fault \in Faults : ProviderTaskRun(t, fault)
    \/ \E t \in ptasks : ProviderTaskFail(t)
    \/ \E p \in Providers : \E r \in RegionsOf(p) : RegionTaskStart(p, r)
    \/ \E p \in Providers, fault \in Faults : \E r \in RegionsOf(p) : RegionTaskEnd(p, r, fault)

Spec == Init /\ [][Next]_vars

\* The scheduler runs every task that can run: weak fairness of the task steps.
FairSpec ==
    /\ Spec
    /\ WF_vars(OnInit)
    /\ WF_vars(\E ok \in BOOLEAN : OnInitLocalTaskRun(ok))
    /\ WF_vars(OnCloudaccountSyncReadyFailed)
    /\ WF_vars(\E okset \in SUBSET Providers, resErr \in BOOLEAN :
          OnCloudaccountSyncReady(okset, resErr))
    /\ WF_vars(OnCloudaccountSyncComplete)
    /\ WF_vars(OnCloudaccountSyncCompleteFailed)
    /\ WF_vars(\E t \in ptasks, fault \in Faults : ProviderTaskRun(t, fault))
    /\ WF_vars(\E p \in Providers : \E r \in RegionsOf(p) : RegionTaskStart(p, r))
    /\ WF_vars(\E p \in Providers, fault \in Faults : \E r \in RegionsOf(p) : RegionTaskEnd(p, r, fault))

\* The synchronizer started on provider rows that carry the timestamps of a
\* sync completed earlier: markSyncing at time 1, markEndSync at time 2.
InitStamps ==
    /\ account \in {[enabled |-> e, sync_status |-> IDLE] : e \in BOOLEAN}
    /\ providers \in [Providers ->
          {[enabled |-> e, sync_status |-> IDLE,
            last_sync |-> 1, last_sync_end_at |-> 2] : e \in BOOLEAN}]
    /\ \E en \in EnabledBindings :
          cprs = [p \in Providers |-> [r \in RegionsOf(p) |->
                     [enabled |-> <<p, r>> \in en, sync_status |-> IDLE]]]
    /\ atask = NoTask
    /\ ptasks = {}
    /\ rsub = [p \in Providers |-> [r \in RegionsOf(p) |-> 0]]
    /\ nTasks = 0
    /\ nSyncs = 0
    /\ nFaults = 0
    /\ lastCall = NoCall
    /\ ZQuiet
    /\ norm = NoNorm
    /\ pmc = NoPmCall
    /\ pmStore = <<>>
    /\ pmCaches = <<>>

SpecStamps == InitStamps /\ [][Next]_vars

(***************************************************************************)
(* The specification of the resource synchronizer.                         *)
(***************************************************************************)
\* The zones the runs start from; inuse: zone 1 has hosts.
InitZoneRows(inuse) ==
    {Row(1, 1, Name("a"), "enable", FALSE, "r1", inuse),
     Row(2, 2, Name("b"), "enable", FALSE, "r1", FALSE),
     Row(3, 1, Name("c"), "enable", FALSE, "r2", FALSE)}

InitNetRows == {Row(4, 3, Name("k"), "available", FALSE, "p1", FALSE)}

InitZones ==
    /\ zones \in {{}} \cup {InitZoneRows(u) : u \in BOOLEAN}
    /\ nets = InitNetRows
    /\ zlocks = {}
    /\ zpass = [pr \in Procs |-> NoPass]
    /\ zlast = [k \in {ZONES, INTERVPC} |-> [p \in ParentsOf(k) |-> NoLast]]
    /\ nPasses = 0
    /\ nZFaults = 0
    /\ nextId = 4
    /\ norm = NoNorm
    /\ pmc = NoPmCall
    /\ pmStore = <<>>
    /\ pmCaches = <<>>
    /\ account = [enabled |-> TRUE, sync_status |-> IDLE]
    /\ providers = [p \in Providers |-> [enabled |-> TRUE, sync_status |-> IDLE,
                                         last_sync |-> ZeroTime,
                                         last_sync_end_at |-> ZeroTime]]
    /\ cprs = [p \in Providers |-> [r \in RegionsOf(p) |-> [enabled |-> TRUE, sync_status |-> IDLE]]]
    /\ atask = NoTask
    /\ ptasks = {}
    /\ rsub = [p \in Providers |-> [r \in RegionsOf(p) |-> 0]]
    /\ nTasks = 0
    /\ nSyncs = 0
    /\ nFaults = 0
    /\ lastCall = NoCall

NextZones ==
    \/ \E pr \in Procs, kind \in {ZONES, INTERVPC} :
          \E parent \in ParentsOf(kind), remote \in RemoteLists(kind) :
             SyncLock(pr, kind, parent, remote)
    \/ \E pr \in Procs, ok \in BOOLEAN : SyncFetch(pr, ok)
    \/ \E pr \in Procs, ok \in BOOLEAN : SyncCompareStep(pr, ok)
    \/ \E pr \in Procs, fault \in {"none", "delete"} : SyncRemove(pr, fault)
    \/ \E pr \in Procs, fault \in {"none", "update"} : SyncUpdate(pr, fault)
    \/ \E pr \in Procs, fault \in {"none", "insert", "i18n"} : SyncAdd(pr, fault)
    \/ \E pr \in Procs : SyncReturn(pr)

SpecZones == InitZones /\ [][NextZones]_vars

(***************************************************************************)
(* The specification of the scope resolver: calls of SSyncRange.Normalize  *)
(* on the scopes a request can carry.                                      *)
(***************************************************************************)
\* No sync is requested: the state of the sync state machine in the runs of
\* the scope resolver and of the project-mapping cache.
SQuiet ==
    /\ account = [enabled |-> TRUE, sync_status |-> IDLE]
    /\ providers = [p \in Providers |-> [enabled |-> TRUE, sync_status |-> IDLE,
                                         last_sync |-> ZeroTime,
                                         last_sync_end_at |-> ZeroTime]]
    /\ cprs = [p \in Providers |-> [r \in RegionsOf(p) |-> [enabled |-> TRUE, sync_status |-> IDLE]]]
    /\ atask = NoTask
    /\ ptasks = {}
    /\ rsub = [p \in Providers |-> [r \in RegionsOf(p) |-> 0]]
    /\ nTasks = 0
    /\ nSyncs = 0
    /\ nFaults = 0
    /\ lastCall = NoCall

\* The lists of at most MaxScopeLen identifiers over a set.
ListsOver(S) == UNION {[1..n -> S] : n \in 0..MaxScopeLen}

\* The scopes of the requests: ids, names and the unknown identifier "x".
ScopeInputs ==
    {NewSyncRange(FALSE, FALSE, r, z, h, <<>>) :
        r \in ListsOver({"r1", "R1", "x"}),
        z \in ListsOver({"z1", "Z1", "z2", "x"}),
        h \in ListsOver({"h1", "H2", "H3", "x"})}

InitRange ==
    /\ norm \in {[pc |-> "call", in |-> sr, out |-> sr, err |-> NoErr] : sr \in ScopeInputs}
    /\ pmc = NoPmCall
    /\ pmStore = <<>>
    /\ pmCaches = <<>>
    /\ SQuiet
    /\ ZQuiet

\* sr.Normalize() is called and returns.
NormalizeCall ==
    /\ norm.pc = "call"
    /\ LET res == Normalize(norm.in)
       IN  norm' = [norm EXCEPT !.pc = "done", !.out = res.sr, !.err = res.err]
    /\ UNCHANGED <<account, providers, cprs, atask, ptasks, rsub, nTasks, nSyncs, nFaults,
                   lastCall, zones, nets, zlocks, zpass, zlast, nPasses, nZFaults, nextId, pmc,
                   pmStore, pmCaches>>

NextRange == NormalizeCall

SpecRange == InitRange /\ [][NextRange]_vars

(***************************************************************************)
(* The specification of the project-mapping cache: calls of                *)
(* pmCache.GetProjectMapping on the entries the cache can hold.            *)
(***************************************************************************)
\* The ids of the project-mapping rules that exist.
MappingRules == {"m1", "m2"}

\* GetRuleMapping(id): the rule of the id, or an error if there is none.
GetRuleMapping(id) ==
    IF id \in MappingRules THEN [pm |-> id, err |-> ""]
    ELSE [pm |-> "", err |-> "GetRuleMapping"]

\* The nil *sProjectMapping, and the one made of a rule and two flags.
NilMapping == [nil |-> TRUE, pm |-> "", EnableProjectSync |-> FALSE, EnableResourceSync |-> FALSE]
NewMapping(pm, projectSync, resourceSync) ==
    [nil |-> FALSE, pm |-> pm, EnableProjectSync |-> projectSync, EnableResourceSync |-> resourceSync]

\* The entries of pmCaches: each mapping id is empty, the id of a rule, or
\* the id of a rule that no longer exists.
PmCaches ==
    [ManagerProjectMappingId : {"", "m1", "m2", "m9"},
     AccountProjectMappingId : {"", "m1", "m2", "m9"},
     ManagerEnableProjectSync : BOOLEAN, ManagerEnableResourceSync : BOOLEAN,
     AccountEnableProjectSync : BOOLEAN, AccountEnableResourceSync : BOOLEAN]

\* GetProjectMapping with the account-level mapping looked at first.
GetProjectMapping_AccountFirst(self) ==
    IF Len(self.AccountProjectMappingId) > 0
    THEN LET r == GetRuleMapping(self.AccountProjectMappingId)
         IN  [ret |-> NewMapping(r.pm, self.AccountEnableProjectSync, self.AccountEnableResourceSync),
              err |-> r.err]
    ELSE IF Len(self.ManagerProjectMappingId) > 0
    THEN LET r == GetRuleMapping(self.ManagerProjectMappingId)
         IN  IF r.err # "" THEN [ret |-> NilMapping, err |-> r.err]
             ELSE [ret |-> NewMapping(r.pm, self.ManagerEnableProjectSync,
                                      self.ManagerEnableResourceSync),
                   err |-> ""]
    ELSE [ret |-> NilMapping, err |-> "NotFound"]

\* pmCache.GetProjectMapping: the mapping and the error it returns.
GetProjectMapping(self) ==
    IF Len(self.ManagerProjectMappingId) > 0
    THEN LET r == GetRuleMapping(self.ManagerProjectMappingId)
         IN  IF r.err # "" THEN [ret |-> NilMapping, err |-> r.err]
             ELSE [ret |-> NewMapping(r.pm, self.ManagerEnableProjectSync,
                                      self.ManagerEnableResourceSync),
                   err |-> ""]
    ELSE IF Len(self.AccountProjectMappingId) > 0
    THEN LET r == GetRuleMapping(self.AccountProjectMappingId)
         IN  [ret |-> NewMapping(r.pm, self.AccountEnableProjectSync, self.AccountEnableResourceSync),
              err |-> r.err]
    ELSE [ret |-> NilMapping, err |-> "NotFound"]

InitPm ==
    /\ pmStore = <<>>
    /\ pmCaches = <<>>
    /\ pmc \in {[pc |-> "call", cache |-> c, ret |-> NilMapping, err |-> ""] : c \in PmCaches}
    /\ norm = NoNorm
    /\ SQuiet
    /\ ZQuiet

\* cache.GetProjectMapping() is called and returns.
GetProjectMappingCall ==
    /\ pmc.pc = "call"
    /\ LET res == GetProjectMapping(pmc.cache)
       IN  pmc' = [pmc EXCEPT !.pc = "done", !.ret = res.ret, !.err = res.err]
    /\ UNCHANGED <<account, providers, cprs, atask, ptasks, rsub, nTasks, nSyncs, nFaults,
                   lastCall, zones, nets, zlocks, zpass, zlast, nPasses, nZFaults, nextId, norm,
                   pmStore, pmCaches>>

NextPm == GetProjectMappingCall

SpecPm == InitPm /\ [][NextPm]_vars

(***************************************************************************)
(* The specification of the zone names: passes of SyncZones for the two    *)
(* regions on an empty zones_tbl, each with one remote zone, with          *)
(* newFromCloudZone split at the steps other goroutines can interleave     *)
(* with.                                                                   *)
(***************************************************************************)
\* Calls of newFromCloudZone and syncWithCloudZone made in one behaviour.
MaxNameCalls == 4

\* The remote zones of a region: both regions have a zone called "a".
NameExts(region) ==
    IF region = "r1" THEN {Ext(1, "a", "enable", FALSE), Ext(3, "b", "enable", FALSE)}
    ELSE {Ext(2, "a", "soon", TRUE), Ext(4, "b", "enable", FALSE)}

\* A pass of SyncZones for region, holding the lock of the region, finds ext
\* in added; newFromCloudZone takes the lock of (zone, "name") and
\* db.GenerateName returns the name.
NewZoneName(pr, region, ext) ==
    /\ zpass[pr].pc = "idle"
    /\ nPasses < MaxNameCalls
    /\ CanLock(LockKey(ZONES, region))
    /\ ~\E x \in zones : x.parent = region /\ x.external_id = ext.external_id
    /\ CanLock(LockKey(ZONES, "name"))
    /\ zlocks' = zlocks \cup {LockKey(ZONES, region), LockKey(ZONES, "name")}
    /\ zpass' = [zpass EXCEPT ![pr] =
                    [pc |-> "insert", parent |-> region, ext |-> ext,
                     name |-> GenerateName(zones, ext.name)]]
    /\ nPasses' = nPasses + 1
    /\ UNCHANGED <<zones, nets, zlast, nZFaults, nextId>>
    /\ UNCHANGED svars

\* Insert of the zone under the name taken, the deferred release of the name
\* lock, SyncI18ns, and the return of the pass. ok: Insert succeeds.
NewZoneInsert(pr, ok) ==
    LET ps == zpass[pr]
    IN  /\ ps.pc = "insert"
        /\ zones' = IF ok
                    THEN zones \cup {Row(nextId + 1, ps.ext.external_id, ps.name, ps.ext.status,
                                         ps.ext.is_emulated, ps.parent, FALSE)}
                    ELSE zones
        /\ nextId' = IF ok THEN nextId + 1 ELSE nextId
        /\ zlocks' = zlocks \ {LockKey(ZONES, ps.parent), LockKey(ZONES, "name")}
        /\ zpass' = [zpass EXCEPT ![pr] = NoPass]
        /\ UNCHANGED <<nets, zlast, nPasses, nZFaults>>
        /\ UNCHANGED svars

\* A pass of SyncZones for region finds ext in both lists and calls
\* syncWithCloudZone on the local zone. ok: the update succeeds.
ZoneSyncWith(pr, region, ext, ok) ==
    /\ zpass[pr].pc = "idle"
    /\ nPasses < MaxNameCalls
    /\ CanLock(LockKey(ZONES, region))
    /\ \E row \in zones :
          /\ row.parent = region
          /\ row.external_id = ext.external_id
          /\ zones' = syncWithCloudZone(zones, row, ext, region,
                                        IF ok THEN "none" ELSE "update").rows
    /\ nPasses' = nPasses + 1
    /\ UNCHANGED <<nets, zlocks, zpass, zlast, nZFaults, nextId>>
    /\ UNCHANGED svars

InitNames ==
    /\ zones = {}
    /\ nets = {}
    /\ zlocks = {}
    /\ zpass = [pr \in Procs |-> NoPass]
    /\ zlast = [k \in {ZONES, INTERVPC} |-> [p \in ParentsOf(k) |-> NoLast]]
    /\ nPasses = 0
    /\ nZFaults = 0
    /\ nextId = 0
    /\ norm = NoNorm
    /\ pmc = NoPmCall
    /\ pmStore = <<>>
    /\ pmCaches = <<>>
    /\ SQuiet

NextNames ==
    \/ \E pr \in Procs, region \in Regions : \E ext \in NameExts(region) :
          NewZoneName(pr, region, ext)
    \/ \E pr \in Procs, ok \in BOOLEAN : NewZoneInsert(pr, ok)
    \/ \E pr \in Procs, region \in Regions, ok \in BOOLEAN : \E ext \in NameExts(region) :
          ZoneSyncWith(pr, region, ext, ok)

SpecNames == InitNames /\ [][NextNames]_vars

(***************************************************************************)
(* The specification of the map pmCaches: refreshPmCaches, the two         *)
(* GetProjectMapping methods that fill it on a miss, and the operations    *)
(* that change the rows it is built from.                                  *)
(***************************************************************************)
\* The variables a step on the project-mapping cache leaves alone.
pvars == <<account, providers, cprs, atask, ptasks, rsub, nTasks, nSyncs, nFaults, lastCall,
           zones, nets, zlocks, zpass, zlast, nPasses, nZFaults, nextId, norm>>

\* The cloudaccounts of cloudaccounts_tbl.
PmAccounts == {"a1", "a2"}

\* Updates and deletions of provider rows made in one behaviour.
MaxPmWrites == 2

\* api.CloudaccountProjectMappingInput; a nil *bool is <<>>. m9 is not the id
\* of a project mapping.
PmInputs ==
    {[ProjectMappingId |-> "", EnableProjectSync |-> <<>>, EnableResourceSync |-> <<>>],
     [ProjectMappingId |-> "m2", EnableProjectSync |-> <<TRUE>>, EnableResourceSync |-> <<>>],
     [ProjectMappingId |-> "m1", EnableProjectSync |-> <<FALSE>>, EnableResourceSync |-> <<TRUE>>],
     [ProjectMappingId |-> "m9", EnableProjectSync |-> <<>>, EnableResourceSync |-> <<>>]}

\* The row of the query of refreshPmCaches for provider id: the provider's
\* columns LEFT JOINed with the columns of its account.
PmCacheRow(store, id) ==
    LET pr == store.providers[id]
        joined == pr.cloudaccount_id \in DOMAIN store.accounts
        ac == store.accounts[pr.cloudaccount_id]
    IN  [Id |-> id,
         CloudaccountId |-> pr.cloudaccount_id,
         ManagerProjectMappingId |-> pr.project_mapping_id,
         ManagerEnableProjectSync |-> pr.enable_project_sync,
         ManagerEnableResourceSync |-> pr.enable_resource_sync,
         AccountProjectMappingId |-> IF joined THEN ac.project_mapping_id ELSE "",
         AccountEnableProjectSync |-> IF joined THEN ac.enable_project_sync ELSE FALSE,
         AccountEnableResourceSync |-> IF joined THEN ac.enable_resource_sync ELSE FALSE]

\* refreshPmCaches on the map caches: the map after it. Every row of the query
\* is stored under its provider id; no key is deleted.
refreshPmCaches(store, caches) ==
    [id \in DOMAIN caches \cup DOMAIN store.providers |->
        IF id \in DOMAIN store.providers THEN PmCacheRow(store, id) ELSE caches[id]]

\* SCloudprovider.PerformProjectMapping. fault: db.Update or the query of
\* refreshPmCaches fails.
PerformProjectMapping(p, input, fault) ==
    LET self == pmStore.providers[p]
        invalid == IF Len(input.ProjectMappingId) = 0 THEN ""
                   ELSE IF input.ProjectMappingId \notin MappingRules THEN "ValidateModel"
                   ELSE IF /\ Len(self.project_mapping_id) > 0
                           /\ self.project_mapping_id # input.ProjectMappingId
                        THEN "InputParameterError"
                   ELSE ""
        row == [self EXCEPT
                  !.project_mapping_id = input.ProjectMappingId,
                  !.enable_project_sync =
                      IF input.EnableProjectSync # <<>> THEN input.EnableProjectSync[1] ELSE @,
                  !.enable_resource_sync =
                      IF input.EnableResourceSync # <<>> THEN input.EnableResourceSync[1] ELSE @]
        store == [pmStore EXCEPT !.providers[p] = row, !.writes = @ + 1]
    IN  /\ p \in DOMAIN pmStore.providers
        /\ fault \in {"none", "update", "refresh"}
        /\ invalid # "" => fault = "none"
        /\ invalid = "" /\ fault # "update" => pmStore.writes < MaxPmWrites
        /\ IF invalid # "" \/ fault = "update"
           THEN UNCHANGED <<pmStore, pmCaches>>
           ELSE /\ pmStore' = store
                /\ pmCaches' = IF fault = "refresh" THEN pmCaches
                               ELSE refreshPmCaches(store, pmCaches)
        /\ pmc' = [pc |-> "done", op |-> "PerformProjectMapping", self |-> p,
                   hit |-> FALSE,
                   refreshed |-> invalid = "" /\ fault = "none",
                   ret |-> NilMapping,
                   err |-> IF invalid # "" THEN invalid
                           ELSE IF fault = "update" THEN "db.Update"
                           ELSE IF fault = "refresh" THEN "refreshPmCaches" ELSE ""]
        /\ UNCHANGED pvars

\* SCloudprovider.RealDelete: the row of the provider is deleted.
RealDelete(p) ==
    /\ p \in DOMAIN pmStore.providers
    /\ pmStore.writes < MaxPmWrites
    /\ pmStore' = [pmStore EXCEPT
                     !.providers = [id \in DOMAIN pmStore.providers \ {p} |-> pmStore.providers[id]],
                     !.writes = @ + 1,
                     !.deleted = @ \cup {p}]
    /\ pmc' = [pc |-> "done", op |-> "RealDelete", self |-> p, hit |-> FALSE,
               refreshed |-> FALSE, ret |-> NilMapping, err |-> ""]
    /\ UNCHANGED pmCaches
    /\ UNCHANGED pvars

\* SCloudprovider.GetProjectMapping on a provider read from storage, whose
\* row may have been deleted since. refreshOk: the query of refreshPmCaches
\* succeeds. "panic": cache.GetProjectMapping() is called on the nil pointer
\* that pmCaches[self.Id] answers for a missing key, and reads a field of it.
CloudproviderGetProjectMapping(p, refreshOk) ==
    LET hit == p \in DOMAIN pmCaches
        caches == IF hit \/ ~refreshOk THEN pmCaches ELSE refreshPmCaches(pmStore, pmCaches)
        res == IF ~hit /\ ~refreshOk THEN [ret |-> NilMapping, err |-> "refreshPmCaches"]
               ELSE IF p \notin DOMAIN caches THEN [ret |-> NilMapping, err |-> "panic"]
               ELSE GetProjectMapping(caches[p])
    IN  /\ p \in DOMAIN pmStore.providers \/ p \in pmStore.deleted
        /\ hit => refreshOk
        /\ pmCaches' = caches
        /\ pmc' = [pc |-> "done", op |-> "SCloudprovider.GetProjectMapping", self |-> p,
                   hit |-> hit, refreshed |-> ~hit /\ refreshOk,
                   ret |-> res.ret, err |-> res.err]
        /\ UNCHANGED pmStore
        /\ UNCHANGED pvars

\* SCloudaccount.GetProjectMapping: the first entry of the account that the
\* iteration over the map meets, in the order the map happens to have.
CloudaccountGetProjectMapping(a, refreshOk) ==
    LET Entries(c) == {id \in DOMAIN c : c[id].CloudaccountId = a}
        hit == Entries(pmCaches) # {}
        caches == IF hit \/ ~refreshOk THEN pmCaches ELSE refreshPmCaches(pmStore, pmCaches)
    IN  /\ hit => refreshOk
        /\ pmCaches' = caches
        /\ \E res \in IF ~hit /\ ~refreshOk
                      THEN {[ret |-> NilMapping, err |-> "refreshPmCaches"]}
                      ELSE IF Entries(caches) = {}
                      THEN {[ret |-> NilMapping, err |-> "cache:NotFound"]}
                      ELSE {GetProjectMapping(caches[id]) : id \in Entries(caches)} :
              pmc' = [pc |-> "done", op |-> "SCloudaccount.GetProjectMapping", self |-> a,
                      hit |-> hit, refreshed |-> ~hit /\ refreshOk,
                      ret |-> res.ret, err |-> res.err]
        /\ UNCHANGED pmStore
        /\ UNCHANGED pvars

\* The process starts with an empty map; p1 is a provider of account a1, p2 of
\* a1 or a2; a provider may have its own project mapping and a1 may have one.
InitCache ==
    /\ \E S \in SUBSET Providers, a \in PmAccounts, m \in [Providers -> {"", "m1"}],
          am \in {"", "m2"} :
          pmStore = [providers |-> [id \in S |->
                        [cloudaccount_id |-> IF id = "p1" THEN "a1" ELSE a,
                         project_mapping_id |-> m[id],
                         enable_project_sync |-> FALSE,
                         enable_resource_sync |-> FALSE]],
                     accounts |-> [x \in PmAccounts |->
                        [project_mapping_id |-> IF x = "a1" THEN am ELSE "m2",
                         enable_project_sync |-> x = "a1",
                         enable_resource_sync |-> x = "a2"]],
                     writes |-> 0,
                     deleted |-> {}]
    /\ pmCaches = <<>>
    /\ pmc = NoPmCall
    /\ norm = NoNorm
    /\ SQuiet
    /\ ZQuiet

NextCache ==
    \/ \E p \in Providers, input \in PmInputs, fault \in {"none", "update", "refresh"} :
          PerformProjectMapping(p, input, fault)
    \/ \E p \in Providers : RealDelete(p)
    \/ \E p \in Providers, ok \in BOOLEAN : CloudproviderGetProjectMapping(p, ok)
    \/ \E a \in PmAccounts, ok \in BOOLEAN : CloudaccountGetProjectMapping(a, ok)

SpecCache == InitCache /\ [][NextCache]_vars

(***************************************************************************)
(* The cloudprovider records outside a sync: the delete check, the enabled *)
(* flag of a provider and of its cloudaccount, and the reset of the sync   *)
(* status when the service starts.                                         *)
(***************************************************************************)
\* The delete check without the test of the sync status.
CloudproviderValidateDeleteCondition_EnabledOnly(row) ==
    IF row.enabled THEN "InvalidStatus" ELSE ""

\* SCloudprovider.ValidateDeleteCondition: the error it returns, "" for the
\* answer of the base class.
CloudproviderValidateDeleteCondition(row) ==
    IF row.enabled THEN "InvalidStatus"
    ELSE IF row.sync_status # IDLE THEN "InvalidStatus"
    ELSE ""

\* The delete check is called on provider p.
ValidateDeleteConditionCall(p) ==
    /\ lastCall' = [op |-> "ValidateDeleteCondition", provider |-> p,
                    err |-> CloudproviderValidateDeleteCondition(providers[p])]
    /\ UNCHANGED <<account, providers, cprs, atask, ptasks, rsub, nTasks, nSyncs, nFaults>>
    /\ UNCHANGED zvars

\* SCloudprovider.PerformEnable. fault: the PerformEnable of the base class
\* ("enable"), GetCloudaccount ("account") or enableAccountOnly
\* ("enableAccount") returns an error.
PerformEnable(p, fault) ==
    LET refused == providers[p].status \in {"start_delete", "deleting", "delete_failed"}
        enabled == ~refused /\ fault # "enable"
        onAccount == enabled /\ fault # "account" /\ ~account.enabled
        hit == /\ ~refused
               /\ \/ fault \in {"enable", "account"}
                  \/ fault = "enableAccount" /\ ~account.enabled
    IN  /\ (fault # "none") => (hit /\ nFaults < MaxFaults)
        /\ providers' = IF enabled THEN [providers EXCEPT ![p].enabled = TRUE] ELSE providers
        /\ account' = IF onAccount /\ fault # "enableAccount"
                      THEN [account EXCEPT !.enabled = TRUE] ELSE account
        /\ nFaults' = nFaults + FaultCost(fault)
        /\ lastCall' = [op |-> "PerformEnable", provider |-> p,
                        account_enabled |-> account.enabled,
                        err |-> IF refused THEN "InvalidStatus"
                                ELSE IF fault # "none" THEN fault ELSE ""]
        /\ UNCHANGED <<cprs, atask, ptasks, rsub, nTasks, nSyncs>>
        /\ UNCHANGED zvars

\* PerformDisable that leaves the cloudaccount alone.
PerformDisable_ProviderOnly(p, fault) ==
    LET disabled == fault # "disable"
        after == IF disabled THEN [providers EXCEPT ![p].enabled = FALSE] ELSE providers
        allDisable == \A q \in Providers : ~after[q].enabled
        onAccount == disabled /\ fault # "account" /\ allDisable /\ account.enabled
        hit == \/ fault \in {"disable", "account"}
               \/ fault = "disableAccount" /\ allDisable /\ account.enabled
    IN  /\ (fault # "none") => (hit /\ nFaults < MaxFaults)
        /\ providers' = after
        /\ account' = account
        /\ nFaults' = nFaults + FaultCost(fault)
        /\ lastCall' = [op |-> "PerformDisable", provider |-> p,
                        account_enabled |-> account.enabled,
                        err |-> IF fault # "none" THEN fault ELSE ""]
        /\ UNCHANGED <<cprs, atask, ptasks, rsub, nTasks, nSyncs>>
        /\ UNCHANGED zvars

\* SCloudprovider.PerformDisable. fault: the PerformDisable of the base class
\* ("disable"), GetCloudaccount ("account") or the PerformDisable of the
\* cloudaccount ("disableAccount") returns an error.
PerformDisable(p, fault) ==
    LET disabled == fault # "disable"
        after == IF disabled THEN [providers EXCEPT ![p].enabled = FALSE] ELSE providers
        allDisable == \A q \in Providers : ~after[q].enabled
        onAccount == disabled /\ fault # "account" /\ allDisable /\ account.enabled
        hit == \/ fault \in {"disable", "account"}
               \/ fault = "disableAccount" /\ allDisable /\ account.enabled
    IN  /\ (fault # "none") => (hit /\ nFaults < MaxFaults)
        /\ providers' = after
        /\ account' = IF onAccount /\ fault # "disableAccount"
                      THEN [account EXCEPT !.enabled = FALSE] ELSE account
        /\ nFaults' = nFaults + FaultCost(fault)
        /\ lastCall' = [op |-> "PerformDisable", provider |-> p,
                        account_enabled |-> account.enabled,
                        err |-> IF fault # "none" THEN fault ELSE ""]
        /\ UNCHANGED <<cprs, atask, ptasks, rsub, nTasks, nSyncs>>
        /\ UNCHANGED zvars

\* SCloudproviderManager.initAllRecords. fetchOk: the query of
\* fetchRecordsByQuery succeeds (it answers nil otherwise); failed: the
\* records whose db.Update returns an error, which the loop does not look at.
initAllRecords(fetchOk, failed) ==
    LET recs == IF fetchOk THEN Providers ELSE {}
        clean == fetchOk /\ failed = {}
    IN  /\ ~fetchOk => failed = {}
        /\ ~clean => nFaults < MaxFaults
        /\ providers' = [q \in Providers |->
                            IF q \in recs \ failed
                            THEN [providers[q] EXCEPT !.sync_status = IDLE]
                            ELSE providers[q]]
        /\ nFaults' = IF clean THEN nFaults ELSE nFaults + 1
        /\ lastCall' = [op |-> "initAllRecords", provider |-> "", err |-> ""]
        /\ UNCHANGED <<account, cprs, atask, ptasks, rsub, nTasks, nSyncs>>
        /\ UNCHANGED zvars

\* The records the calls are made on: a provider of any sync status, enabled
\* or not (a provider can be disabled while it syncs), or a disabled idle one
\* whose deletion has started; the cloudaccount is enabled if one of its
\* providers is.
InitRecords ==
    /\ providers \in [Providers ->
          {[enabled |-> e, sync_status |-> st, status |-> "connected",
            last_sync |-> ZeroTime, last_sync_end_at |-> ZeroTime] :
               e \in BOOLEAN, st \in SyncStatuses}
          \cup {[enabled |-> FALSE, sync_status |-> IDLE, status |-> "start_delete",
                 last_sync |-> ZeroTime, last_sync_end_at |-> ZeroTime]}]
    /\ account \in {[enabled |-> e, sync_status |-> IDLE] : e \in BOOLEAN}
    /\ (\E q \in Providers : providers[q].enabled) => account.enabled
    /\ cprs = [p \in Providers |-> [r \in RegionsOf(p) |-> [enabled |-> TRUE, sync_status |-> IDLE]]]
    /\ atask = NoTask
    /\ ptasks = {}
    /\ rsub = [p \in Providers |-> [r \in RegionsOf(p) |-> 0]]
    /\ nTasks = 0
    /\ nSyncs = 0
    /\ nFaults = 0
    /\ lastCall = NoCall
    /\ ZQuiet
    /\ norm = NoNorm
    /\ pmc = NoPmCall
    /\ pmStore = <<>>
    /\ pmCaches = <<>>

NextRecords ==
    \/ \E p \in Providers : ValidateDeleteConditionCall(p)
    \/ \E p \in Providers, fault \in {"none", "enable", "account", "enableAccount"} :
          PerformEnable(p, fault)
    \/ \E p \in Providers, fault \in {"none", "disable", "account", "disableAccount"} :
          PerformDisable(p, fault)
    \/ \E fetchOk \in BOOLEAN, failed \in SUBSET Providers : initAllRecords(fetchOk, failed)

SpecRecords == InitRecords /\ [][NextRecords]_vars

(***************************************************************************)
(* The map pmCaches under concurrent calls: every goroutine that serves a  *)
(* request reads and writes the map directly, and each access of the map   *)
(* takes time (it begins and it ends). pmc holds, for each goroutine, the  *)
(* call it is in and the access it is making.                              *)
(***************************************************************************)
\* A goroutine calls SCloudprovider.GetProjectMapping on provider p: it is
\* about to read pmCaches[self.Id].
GetProjectMappingEnter(t, p) ==
    /\ \A u \in Procs : pmc[u].pc # "fatal"
    /\ pmc[t].pc = "idle"
    /\ p \in DOMAIN pmStore.providers
    /\ pmc' = [pmc EXCEPT ![t] = [@ EXCEPT !.pc = "lookup", !.op = "GetProjectMapping",
                                            !.self = p]]
    /\ UNCHANGED <<pmStore, pmCaches>>
    /\ UNCHANGED pvars

\* A goroutine calls SCloudprovider.PerformProjectMapping on provider p with
\* project mapping m: db.Update writes the row, refreshPmCaches is next.
PerformProjectMappingEnter(t, p, m) ==
    /\ \A u \in Procs : pmc[u].pc # "fatal"
    /\ pmc[t].pc = "idle"
    /\ p \in DOMAIN pmStore.providers
    /\ pmStore.writes < MaxPmWrites
    /\ pmStore.providers[p].project_mapping_id \in {"", m}
    /\ pmStore' = [pmStore EXCEPT !.providers[p].project_mapping_id = m, !.writes = @ + 1]
    /\ pmc' = [pmc EXCEPT ![t] = [@ EXCEPT !.pc = "query", !.op = "PerformProjectMapping",
                                            !.self = p]]
    /\ UNCHANGED pmCaches
    /\ UNCHANGED pvars

\* refreshPmCaches runs its query: the rows it is going to store, in the order
\* of the query; on error it returns.
RefreshQuery(t, ok) ==
    LET ids == SelectSeq(<<"p1", "p2">>, LAMBDA id : id \in DOMAIN pmStore.providers)
        rows == [k \in DOMAIN ids |-> PmCacheRow(pmStore, ids[k])]
    IN  /\ \A u \in Procs : pmc[u].pc # "fatal"
        /\ pmc[t].pc = "query"
        /\ pmc' = [pmc EXCEPT ![t] =
                      IF ok THEN [@ EXCEPT !.pc = "assign", !.todo = rows, !.stored = 0]
                      ELSE [@ EXCEPT !.pc = "idle"]]
        /\ UNCHANGED <<pmStore, pmCaches>>
        /\ UNCHANGED pvars

\* A goroutine begins an access of the map: the read pmCaches[self.Id] or the
\* assignment pmCaches[caches[i].Id] = &caches[i]. Nothing makes it wait for
\* the access of another goroutine. detected: the access meets an assignment
\* in progress and the runtime's check of concurrent map access ends the
\* process; whether it does is not determined.
MapAccessBegin(t, detected) ==
    LET kind == IF pmc[t].pc = "assign" THEN "write" ELSE "read"
        conflict == \E u \in Procs \ {t} :
                       /\ pmc[u].acc # "none"
                       /\ "write" \in {kind, pmc[u].acc}
    IN  /\ \A u \in Procs : pmc[u].pc # "fatal"
        /\ pmc[t].pc \in {"lookup", "assign", "lookup2"}
        /\ pmc[t].acc = "none"
        /\ detected => conflict
        /\ pmc' = [pmc EXCEPT ![t] = IF detected THEN [@ EXCEPT !.pc = "fatal"]
                                     ELSE [@ EXCEPT !.acc = kind]]
        /\ UNCHANGED <<pmStore, pmCaches>>
        /\ UNCHANGED pvars

\* The access ends. A first read that finds the key ends the call, one that
\* does not is followed by refreshPmCaches; an assignment stores one row, and
\* after the last row GetProjectMapping reads the key again and
\* PerformProjectMapping returns.
MapAccessEnd(t) ==
    LET th == pmc[t]
        row == Head(th.todo)
    IN  /\ \A u \in Procs : pmc[u].pc # "fatal"
        /\ th.acc # "none"
        /\ pmCaches' = IF th.pc = "assign"
                       THEN [id \in DOMAIN pmCaches \cup {row.Id} |->
                                IF id = row.Id THEN row ELSE pmCaches[id]]
                       ELSE pmCaches
        /\ pmc' = [pmc EXCEPT ![t] =
                      IF th.pc = "lookup"
                      THEN [th EXCEPT !.acc = "none",
                                      !.pc = IF th.self \in DOMAIN pmCaches THEN "idle" ELSE "query"]
                      ELSE IF th.pc = "lookup2"
                      THEN [th EXCEPT !.acc = "none", !.pc = "idle"]
                      ELSE [th EXCEPT !.acc = "none",
                                      !.todo = Tail(th.todo),
                                      !.stored = @ + 1,
                                      !.pc = IF Len(th.todo) > 1 THEN "assign"
                                             ELSE IF th.op = "GetProjectMapping" THEN "lookup2"
                                             ELSE "idle"]]
        /\ UNCHANGED pmStore
        /\ UNCHANGED pvars

\* The process starts with an empty map and both providers stored.
InitRace ==
    /\ \E a \in PmAccounts, am \in {"", "m2"} :
          pmStore = [providers |-> [id \in Providers |->
                        [cloudaccount_id |-> IF id = "p1" THEN "a1" ELSE a,
                         project_mapping_id |-> "",
                         enable_project_sync |-> FALSE,
                         enable_resource_sync |-> FALSE]],
                     accounts |-> [x \in PmAccounts |->
                        [project_mapping_id |-> IF x = "a1" THEN am ELSE "m2",
                         enable_project_sync |-> x = "a1",
                         enable_resource_sync |-> x = "a2"]],
                     writes |-> 0,
                     deleted |-> {}]
    /\ pmCaches = <<>>
    /\ pmc = [t \in Procs |-> [pc |-> "idle", op |-> "", self |-> "", acc |-> "none",
                               todo |-> <<>>, stored |-> 0]]
    /\ norm = NoNorm
    /\ SQuiet
    /\ ZQuiet

NextRace ==
    \/ \E t \in Procs, p \in Providers : GetProjectMappingEnter(t, p)
    \/ \E t \in Procs, p \in Providers, m \in MappingRules : PerformProjectMappingEnter(t, p, m)
    \/ \E t \in Procs, ok \in BOOLEAN : RefreshQuery(t, ok)
    \/ \E t \in Procs, detected \in BOOLEAN : MapAccessBegin(t, detected)
    \/ \E t \in Procs : MapAccessEnd(t)

SpecRace == InitRace /\ [][NextRace]_vars

(***************************************************************************)
(* The locks of concurrent SyncZones passes: every pass has been called,   *)
(* for a region and with the records its loops will go through, and waits  *)
(* for the lock of its region. zpass holds, for each goroutine, where the  *)
(* pass is and the keys it holds, in the order it took them.               *)
(***************************************************************************)
\* The release that leaves the lock of the region held when the pass returns
\* early on an error.
ReleaseRawObject_NoDefer(pr) ==
    LET ps == zpass[pr]
    IN  /\ ps.pc \in {"critical", "return"}
        /\ zlocks' = IF ps.pc = "return" /\ ps.early THEN zlocks
                     ELSE zlocks \ {ps.held[Len(ps.held)]}
        /\ zpass' = [zpass EXCEPT ![pr] =
                        IF ps.pc = "return"
                        THEN [ps EXCEPT !.pc = "done", !.held = <<>>]
                        ELSE [ps EXCEPT !.held = SubSeq(@, 1, Len(@) - 1),
                                        !.i = @ + 1,
                                        !.pc = IF ps.i < Len(ps.items) THEN "item" ELSE "return"]]
        /\ UNCHANGED <<zones, nets, zlast, nPasses, nZFaults, nextId>>
        /\ UNCHANGED svars

\* lockman.LockRawObject / LockObject returns: no one holds the key the pass
\* waits for, the lock of its region or the lock of its next record. The
\* lock of a record is the zone for syncRemoveCloudZone (lockman.LockObject)
\* and for syncWithCloudZone (db.UpdateWithLock), the naming lock for
\* newFromCloudZone.
LockRawObject(pr) ==
    LET ps == zpass[pr]
        key == IF ps.pc = "parent" THEN LockKey(ZONES, ps.parent)
               ELSE IF ps.items[ps.i] = "add" THEN <<"zone", "name">>
               ELSE <<"zone", ps.parent, ps.items[ps.i]>>
    IN  /\ ps.pc \in {"parent", "item"}
        /\ CanLock(key)
        /\ zlocks' = zlocks \cup {key}
        /\ zpass' = [zpass EXCEPT ![pr] =
                        [ps EXCEPT !.held = Append(@, key),
                                   !.pc = IF ps.pc = "item" THEN "critical"
                                          ELSE IF ps.early \/ ps.items = <<>> THEN "return"
                                          ELSE "item"]]
        /\ UNCHANGED <<zones, nets, zlast, nPasses, nZFaults, nextId>>
        /\ UNCHANGED svars

\* The deferred lockman.ReleaseRawObject / ReleaseObject runs: when the call
\* on a record returns, with or without an error, and the pass goes on to the
\* next record or to its return; and when SyncZones returns, early on an error
\* of GetZones or CompareSets or after its loops.
ReleaseRawObject(pr) ==
    LET ps == zpass[pr]
    IN  /\ ps.pc \in {"critical", "return"}
        /\ zlocks' = zlocks \ {ps.held[Len(ps.held)]}
        /\ zpass' = [zpass EXCEPT ![pr] =
                        IF ps.pc = "return"
                        THEN [ps EXCEPT !.pc = "done", !.held = SubSeq(@, 1, Len(@) - 1)]
                        ELSE [ps EXCEPT !.held = SubSeq(@, 1, Len(@) - 1),
                                        !.i = @ + 1,
                                        !.pc = IF ps.i < Len(ps.items) THEN "item" ELSE "return"]]
        /\ UNCHANGED <<zones, nets, zlast, nPasses, nZFaults, nextId>>
        /\ UNCHANGED svars

\* Each of three goroutines has called SyncZones for a region; early: GetZones or
\* CompareSets returns an error; items: the records of removed, commondb and
\* added, in the order of the loops.
InitLocks ==
    /\ zpass \in [{1, 2, 3} ->
          {[pc |-> "parent", parent |-> r, early |-> e, items |-> w, i |-> 1, held |-> <<>>] :
              r \in Regions, e \in BOOLEAN,
              w \in {<<>>, <<"add">>, <<"z1", "add">>, <<"z1", "z2", "add", "add">>}}]
    /\ \A pr \in DOMAIN zpass : zpass[pr].early => zpass[pr].items = <<>>
    /\ zlocks = {}
    /\ zones = {}
    /\ nets = {}
    /\ zlast = [k \in {ZONES, INTERVPC} |-> [p \in ParentsOf(k) |-> NoLast]]
    /\ nPasses = 0
    /\ nZFaults = 0
    /\ nextId = 0
    /\ norm = NoNorm
    /\ pmc = NoPmCall
    /\ pmStore = <<>>
    /\ pmCaches = <<>>
    /\ SQuiet

NextLocks ==
    \/ \E pr \in DOMAIN zpass : LockRawObject(pr)
    \/ \E pr \in DOMAIN zpass : ReleaseRawObject(pr)

\* A goroutine that can take a step takes it: a lock that stays free is given
\* to a goroutine that waits for it.
FairSpecLocks ==
    /\ InitLocks
    /\ [][NextLocks]_vars
    /\ \A pr \in {1, 2, 3} : WF_vars(LockRawObject(pr)) /\ WF_vars(ReleaseRawObject(pr))

(***************************************************************************)
(* Properties of the sync state machine.                                   *)
(***************************************************************************)
\* C1: when the account sync task reaches its failed terminal state, the
\* account's sync status is idle; no failed pass leaves it queued or syncing.
C1_FailedPassEndsIdle ==
    atask.stage = "failed" => account.sync_status = IDLE

C6_CompletionLiveness ==
    /\ \A p \in Providers :
          (providers[p].sync_status = SYNCING) ~> (providers[p].sync_status = IDLE)
    /\ (atask.stage = "on_cloudaccount_sync_complete") ~> (atask.stage \in {"complete", "failed"})

(***************************************************************************)
(* Properties of the resource synchronizer.                                *)
(***************************************************************************)
\* A pass is between its lock acquisition and its release.
Locked(pr) == zpass[pr].pc # "idle"

\* C7: at any time at most one SyncZones pass per region, and at most one
\* SyncInterVpcNetwork pass per provider, is between lock acquisition and
\* release, and such a pass holds the key of its parent.
C7_MutualExclusionPerParent ==
    /\ \A a, b \in Procs :
          (a # b /\ Locked(a) /\ Locked(b)) =>
             ~(zpass[a].kind = zpass[b].kind /\ zpass[a].parent = zpass[b].parent)
    /\ \A a \in Procs : Locked(a) => LockKey(zpass[a].kind, zpass[a].parent) \in zlocks

C7_Witness ==
    /\ zpass[1].kind = ZONES /\ zpass[2].kind = ZONES
    /\ zpass[1].parent # zpass[2].parent
    /\ zpass[1].pc = "add"
    /\ zpass[2].pc = "update"

\* C8: after the comparison of a pass every fetched local row is in exactly
\* one of removed / commondb, every remote item in exactly one of added /
\* commonext, the sizes add up, commondb and commonext have the same length
\* and commondb[i] has the key of commonext[i].
C8_ComparatorTotality ==
    \A pr \in Procs :
       LET ps == zpass[pr]
       IN  (ps.pc \in {"remove", "update", "add", "done"} /\ ~ps.result.err) =>
              /\ SeqToSet(ps.removed) \cup SeqToSet(ps.commondb) = SeqToSet(ps.local)
              /\ SeqToSet(ps.removed) \cap SeqToSet(ps.commondb) = {}
              /\ Len(ps.removed) + Len(ps.commondb) = Len(ps.local)
              /\ SeqToSet(ps.added) \cup SeqToSet(ps.commonext) = SeqToSet(ps.remote)
              /\ SeqToSet(ps.added) \cap SeqToSet(ps.commonext) = {}
              /\ Len(ps.added) + Len(ps.commonext) = Len(ps.remote)
              /\ Len(ps.commondb) = Len(ps.commonext)
              /\ \A i \in 1..Len(ps.commondb) :
                    ps.commondb[i].external_id = ps.commonext[i].external_id

C8_Witness ==
    \E pr \in Procs :
       /\ zpass[pr].pc = "remove"
       /\ Len(zpass[pr].removed) > 0
       /\ Len(zpass[pr].commondb) > 0
       /\ Len(zpass[pr].added) > 0

C10_ReconciliationResult ==
    \A pr \in Procs :
       LET ps == zpass[pr]
           L == SeqToSet(ps.local)
           R == SeqToSet(ps.remote)
           keysL == {l.external_id : l \in L}
           keysR == {e.external_id : e \in R}
           now == {z \in zones : z.parent = ps.parent}
       IN  (ps.pc = "done" /\ ps.kind = ZONES /\ Clean(ps.result)) =>
              /\ {z.external_id : z \in now} = keysR
              /\ Cardinality(now) = Cardinality(keysR)
              /\ \A l \in L : \A e \in R :
                    l.external_id = e.external_id =>
                       \E z \in now : /\ z.id = l.id
                                      /\ z.name = Name(e.name)
                                      /\ z.status = e.status
                                      /\ z.is_emulated = e.is_emulated
                                      /\ z.parent = ps.parent
              /\ \A z \in now : z.external_id \notin keysL => z.id \notin {l.id : l \in L}
              /\ ps.result.delete = Cardinality(keysL \ keysR)
              /\ ps.result.update = Cardinality(keysL \cap keysR)
              /\ ps.result.add = Cardinality(keysR \ keysL)

C10_Witness ==
    \E pr \in Procs :
       /\ zpass[pr].pc = "done"
       /\ zpass[pr].kind = ZONES
       /\ Clean(zpass[pr].result)
       /\ zpass[pr].result.delete = 1
       /\ zpass[pr].result.update = 1
       /\ zpass[pr].result.add = 1

\* C11: a failure on one record only increments the error count of its
\* partition: in every state of a pass each partition's success and error
\* counts add up to the records gone through (all of them once the pass is in
\* a later loop or has returned), and a pass that returns has gone through
\* every record of the removed, matched and added partitions.
C11_ItemErrorsNeverAbort ==
    \A pr \in Procs :
       LET ps == zpass[pr]
           order == [remove |-> 1, update |-> 2, add |-> 3, done |-> 4]
           Handled(loop, list) ==
               IF ps.pc \notin DOMAIN order THEN 0
               ELSE IF order[ps.pc] > order[loop] THEN Len(list)
               ELSE IF ps.pc = loop THEN ps.i - 1
               ELSE 0
       IN  /\ ps.result.delete + ps.result.delete_err = Handled("remove", ps.removed)
           /\ ps.result.update + ps.result.update_err = Handled("update", ps.commondb)
           /\ ps.result.add + ps.result.add_err = Handled("add", ps.added)
           /\ (ps.pc = "done" /\ ~ps.result.err) =>
                 /\ Len(ps.removed) + Len(ps.commondb) = Len(ps.local)
                 /\ Len(ps.commonext) + Len(ps.added) = Len(ps.remote)

C11_Witness ==
    \E pr \in Procs :
       /\ zpass[pr].pc = "done"
       /\ zpass[pr].result.delete_err = 1
       /\ zpass[pr].result.update = 1
       /\ zpass[pr].result.add = 1

\* C12: a step in which fetching the local records or the comparator fails
\* ends the pass with the error in its result, all counts zero and no
\* returned records; no step of a pass before its loops changes a local
\* record, and a pass that carries the error only returns.
C12_PassLevelAbort ==
    [][\A pr \in Procs :
          LET ps == zpass[pr]
              qs == zpass'[pr]
          IN  /\ (ps.pc \in {"fetch", "compare"} /\ qs # ps) =>
                    /\ zones' = zones /\ nets' = nets
                    /\ qs.result.err =>
                          /\ qs.pc = "done"
                          /\ qs.result = [NoResult EXCEPT !.err = TRUE]
                          /\ qs.returned = <<>>
                          /\ qs.removed = <<>> /\ qs.commondb = <<>> /\ qs.added = <<>>
              /\ (qs.result.err /\ ~ps.result.err) => ps.pc \in {"fetch", "compare"}
              /\ ps.result.err => qs \in {ps, NoPass}]_vars

C12_Witness ==
    \E pr \in Procs :
       /\ zpass[pr].pc = "done"
       /\ zpass[pr].result.err
       /\ zpass[pr].local # <<>>
       /\ zpass[pr].remote # <<>>

\* C13: a zone row leaves the table only if the zone is not in use; the round
\* of the removed loop on a zone in use records one delete error, leaves every
\* zone row and its localized names unchanged, and the pass goes on to the
\* next record.
C13_DeletionPrecondition ==
    [][/\ \A z \in zones : (\A y \in zones' : y.id # z.id) => ~z.in_use
       /\ \A pr \in Procs :
             LET ps == zpass[pr]
                 qs == zpass'[pr]
             IN  (/\ ps.pc = "remove" /\ ps.kind = ZONES /\ qs # ps
                  /\ ps.removed[ps.i].in_use) =>
                    /\ zones' = zones
                    /\ qs.result = [ps.result EXCEPT !.delete_err = @ + 1]
                    /\ qs = Settle([ps EXCEPT !.i = @ + 1, !.result = qs.result])]_vars

C13_Witness ==
    \E pr \in Procs :
       /\ zpass[pr].kind = ZONES
       /\ zpass[pr].pc = "remove"
       /\ zpass[pr].i = 2
       /\ zpass[pr].removed[1].in_use
       /\ zpass[pr].result.delete_err = 1
       /\ \E z \in zones : z.id = zpass[pr].removed[1].id /\ z.i18n

\* C14: after Normalize returns without error, the region of every entry of
\* Zone is in Region, the zone and the region of every entry of Host are in
\* Zone and in Region, and every entry of Region, Zone and Host is the id of
\* a row (not a name).
C14_ScopeClosure ==
    (norm.pc = "done" /\ norm.err = NoErr) =>
       LET R == SeqToSet(norm.out.region)
           Z == SeqToSet(norm.out.zone)
           H == SeqToSet(norm.out.host)
       IN  /\ R \subseteq {r.id : r \in CloudregionRows}
           /\ Z \subseteq {z.id : z \in ZoneRows}
           /\ H \subseteq {h.id : h \in HostRows}
           /\ \A z \in ZoneRows : z.id \in Z => z.cloudregion_id \in R
           /\ \A h \in HostRows : h.id \in H =>
                  /\ h.zone_id \in Z
                  /\ \A z \in ZoneRows : z.id = h.zone_id => z.cloudregion_id \in R

C16_NoDuplicates ==
    (norm.pc = "done" /\ norm.err = NoErr) =>
       /\ \A j, k \in DOMAIN norm.out.region : norm.out.region[j] = norm.out.region[k] => j = k
       /\ \A j, k \in DOMAIN norm.out.zone : norm.out.zone[j] = norm.out.zone[k] => j = k

C19_NoOpScopeShortCircuit ==
    [][LET sr == atask.sync_range
       IN  (/\ atask.stage = "OnCloudaccountSyncReady" /\ atask.result = "ok"
            /\ atask' # atask
            /\ sr # Nil
            /\ ~sr.full_sync
            /\ sr.region = <<>> /\ sr.zone = <<>> /\ sr.host = <<>> /\ sr.resources = <<>>) =>
              /\ ~atask'.synced
              /\ ptasks' = ptasks /\ nTasks' = nTasks
              /\ atask'.stage = "complete"
              /\ atask'.log = Append(atask.log, ACT_SYNC_HOST_COMPLETE)
              /\ (\A p \in Providers : providers'[p].sync_status = IDLE) =>
                    account'.sync_status = IDLE]_vars

C19_Witness ==
    /\ atask.stage = "complete"
    /\ atask.sync_range # Nil
    /\ ~atask.sync_range.full_sync
    /\ ~atask.synced
    /\ account.sync_status = IDLE

\* C20: for every cache entry, when the provider-level mapping id is not
\* empty GetProjectMapping returns what the look-up of the provider-level
\* rule gives, with the provider-level flags, whatever the account-level id
\* and flags are; when it is empty and the account-level id is not, it
\* returns the account-level rule with the account-level flags; when both
\* are empty it returns NotFound.
C20_MappingPrecedence ==
    pmc.pc = "done" =>
       LET c == pmc.cache
           r == pmc.ret
       IN  IF c.ManagerProjectMappingId # ""
           THEN IF c.ManagerProjectMappingId \in MappingRules
                THEN /\ pmc.err = ""
                     /\ ~r.nil
                     /\ r.pm = c.ManagerProjectMappingId
                     /\ r.EnableProjectSync = c.ManagerEnableProjectSync
                     /\ r.EnableResourceSync = c.ManagerEnableResourceSync
                ELSE pmc.err \notin {"", "NotFound"} /\ r.nil
           ELSE IF c.AccountProjectMappingId # ""
           THEN /\ r.EnableProjectSync = c.AccountEnableProjectSync
                /\ r.EnableResourceSync = c.AccountEnableResourceSync
                /\ IF c.AccountProjectMappingId \in MappingRules
                   THEN pmc.err = "" /\ r.pm = c.AccountProjectMappingId
                   ELSE pmc.err \notin {"", "NotFound"} /\ r.pm = ""
           ELSE pmc.err = "NotFound" /\ r.nil

\* Both levels name a rule, with different ids and different flags, and the
\* call has returned.
C20_Witness ==
    /\ pmc.pc = "done"
    /\ pmc.cache.ManagerProjectMappingId = "m1"
    /\ pmc.cache.AccountProjectMappingId = "m2"
    /\ pmc.cache.ManagerEnableProjectSync /\ ~pmc.cache.AccountEnableProjectSync
    /\ pmc.ret.pm = "m1"
    /\ pmc.ret.EnableProjectSync

\* C29: when a SyncZones pass called with an empty remote list returns, every
\* local zone of the region was in the removed partition, none was updated and
\* none added; the zones of the region that are left are the ones in use and
\* the ones whose Delete failed, one delete error each, and every other one is
\* deleted.
C29_EmptyRemoteDeletesAll ==
    \A pr \in Procs :
       LET ps == zpass[pr]
           left == {z \in zones : z.parent = ps.parent}
       IN  (ps.pc = "done" /\ ps.kind = ZONES /\ ps.remote = <<>> /\ ~ps.result.err) =>
              /\ SeqToSet(ps.removed) = SeqToSet(ps.local)
              /\ Len(ps.removed) = Len(ps.local)
              /\ ps.commondb = <<>> /\ ps.added = <<>>
              /\ ps.result.update = 0 /\ ps.result.update_err = 0
              /\ ps.result.add = 0 /\ ps.result.add_err = 0
              /\ {z.id : z \in left} \subseteq {l.id : l \in SeqToSet(ps.local)}
              /\ \A l \in SeqToSet(ps.local) : l.in_use => l \in left
              /\ Cardinality(left) = ps.result.delete_err
              /\ ps.result.delete = Len(ps.local) - ps.result.delete_err
              /\ ps.result.delete_err <= Cardinality({l \in SeqToSet(ps.local) : l.in_use})
                                          + nZFaults

C29_Witness ==
    \E pr \in Procs :
       /\ zpass[pr].pc = "done"
       /\ zpass[pr].kind = ZONES
       /\ zpass[pr].remote = <<>>
       /\ zpass[pr].result.delete = 2
       /\ \A z \in zones : z.parent # zpass[pr].parent

\* C30: when Normalize returns an error, the Region, Zone and Host lists of
\* the scope are the lists it was called with.
C30_AllOrNothing ==
    (norm.pc = "done" /\ norm.err # NoErr) =>
       /\ norm.out.region = norm.in.region
       /\ norm.out.zone = norm.in.zone
       /\ norm.out.host = norm.in.host

\* C21: SyncCallSyncCloudproviderRegions returns only after every sub-sync it
\* started has finished: while a sub-sync of a binding of a provider is
\* unfinished, the provider task that made the call is still running.
C21_FanOutBarrier ==
    \A p \in Providers : \A r \in RegionsOf(p) :
       rsub[p][r] > 0 => \E t \in ptasks : t.provider = p

\* C22: the step of a provider task that runs syncCloudproviderRegions
\* submits a sub-task for a binding of the provider if and only if the binding
\* is enabled, is neither queued nor syncing, and the region-id set of the
\* task's scope is empty or contains the binding's region; the provider is
\* syncing when a sub-task is submitted.
C22_ScopeFilteredFanOut ==
    [][\A t \in ptasks :
          (/\ ptasks' = ptasks \ {t}
           /\ lastCall' = NoCall \/ "caller" \in DOMAIN lastCall') =>
             LET p == t.provider
                 ids == GetRegionIds(t.sync_range)
             IN  \A r \in RegionsOf(p) :
                    /\ rsub'[p][r] \in {rsub[p][r], rsub[p][r] + 1}
                    /\ (rsub'[p][r] = rsub[p][r] + 1) <=>
                          /\ cprs[p][r].enabled
                          /\ cprs[p][r].sync_status \notin {QUEUED, SYNCING}
                          /\ (ids = {} \/ r \in ids)
                    /\ (rsub'[p][r] = rsub[p][r] + 1) =>
                          /\ providers'[p].sync_status = SYNCING
                          /\ cprs'[p][r].sync_status = QUEUED]_vars

\* C23: in every reachable state a provider whose status is syncing has an
\* empty last-sync-end timestamp (markSyncing clears it), and once a sync has
\* completed (markEndSync has set last-sync-end) that timestamp is not
\* earlier than the last-sync-start timestamp.
C23_TimestampConsistency ==
    \A p \in Providers :
        /\ providers[p].sync_status = SYNCING =>
               providers[p].last_sync_end_at = ZeroTime
        /\ providers[p].last_sync_end_at # ZeroTime =>
               providers[p].last_sync_end_at >= providers[p].last_sync

\* A provider that had completed a sync earlier (times 1 and 2) has been
\* through markSyncing and markEndSync once more.
C23_Witness ==
    \E p \in Providers :
        /\ providers[p].sync_status = IDLE
        /\ providers[p].last_sync > 2
        /\ providers[p].last_sync_end_at > providers[p].last_sync

C25_AuditTrail ==
    [][/\ atask'.stage \in {"none", "init"} => atask'.log = <<>>
       /\ atask'.stage \in {"OnCloudaccountSyncReady", "on_cloudaccount_sync_complete"} =>
             atask'.log = <<ACT_SYNCING_HOST>>
       /\ atask'.stage = "complete" =>
             atask'.log = <<ACT_SYNCING_HOST, ACT_SYNC_HOST_COMPLETE>>
       /\ atask'.stage = "failed" =>
             atask'.log = <<ACT_SYNCING_HOST, ACT_SYNC_HOST_FAILED>>
       /\ (atask'.stage = "complete" /\ atask.stage # "complete") =>
             DB' = AccountMarkEndSyncWithLock(DB)]_vars

\* A task that fanned out to provider tasks has terminated complete.
C25_Witness ==
    /\ atask.stage = "complete"
    /\ atask.created > 0
    /\ atask.log = <<ACT_SYNCING_HOST, ACT_SYNC_HOST_COMPLETE>>

\* C27: after refreshPmCaches has completed, pmCaches holds an entry for
\* exactly the cloudproviders in storage, each with the mapping ids and flags
\* stored; no entry of a provider that is no longer in storage is retained.
C27_WholesaleRebuild ==
    (pmc.pc = "done" /\ pmc.refreshed) =>
        /\ DOMAIN pmCaches = DOMAIN pmStore.providers
        /\ \A id \in DOMAIN pmCaches : pmCaches[id] = PmCacheRow(pmStore, id)

\* C26: a GetProjectMapping call made for a cloudprovider or a cloudaccount
\* in storage that finds no entry in pmCaches, and whose rebuild succeeds,
\* leaves an entry for it in pmCaches and returns what GetProjectMapping of a
\* rebuilt entry returns, which is what the rows in storage say.
C26_MissSelfHeals ==
    (/\ pmc.pc = "done"
     /\ pmc.op \in {"SCloudprovider.GetProjectMapping", "SCloudaccount.GetProjectMapping"}
     /\ ~pmc.hit
     /\ pmc.refreshed) =>
        LET ids == IF pmc.op = "SCloudprovider.GetProjectMapping" THEN {pmc.self}
                   ELSE {id \in DOMAIN pmStore.providers :
                            pmStore.providers[id].cloudaccount_id = pmc.self}
        IN  \E id \in ids :
               /\ id \in DOMAIN pmCaches
               /\ pmCaches[id] = PmCacheRow(pmStore, id)
               /\ [ret |-> pmc.ret, err |-> pmc.err] = GetProjectMapping(pmCaches[id])

\* C28: after any interleaving of sync passes, also of passes for different
\* regions, no two zones created by them carry the same local name, and each
\* created zone has the external id, the status and the emulated flag of its
\* remote record and the region id of the pass.
C28_CollisionFreeNames ==
    /\ \A x, y \in zones : x.id # y.id => x.name # y.name
    /\ \A x \in zones : \E ext \in NameExts(x.parent) :
          /\ x.external_id = ext.external_id
          /\ x.status = ext.status
          /\ x.is_emulated = ext.is_emulated

C32_CountsConserved ==
    \A pr \in Procs :
       LET ps == zpass[pr]
       IN  (ps.pc = "done" /\ ~ps.result.err) =>
              /\ ps.result.delete + ps.result.delete_err = Len(ps.removed)
              /\ ps.result.update + ps.result.update_err = Len(ps.commondb)
              /\ Len(ps.commonext) = Len(ps.commondb)
              /\ ps.result.add + ps.result.add_err = Len(ps.added)
              /\ Len(ps.localZones) = ps.result.update + ps.result.add
              /\ Len(ps.returned) = ps.result.update + ps.result.add
              /\ \A k \in 1..Len(ps.localZones) :
                    \E x \in Table(ps.kind) : /\ x.id = ps.localZones[k]
                                              /\ x.external_id = ps.returned[k]

C32_Witness ==
    \E pr \in Procs :
       /\ zpass[pr].pc = "done"
       /\ ~zpass[pr].result.err
       /\ zpass[pr].result.delete = 1
       /\ zpass[pr].result.update = 1
       /\ zpass[pr].result.add = 0
       /\ zpass[pr].result.add_err = 1
       /\ Len(zpass[pr].localZones) = 1

\* C33: whenever a step of the loop over added counts an add error for a remote
\* record, no local record of the parent with that record's external id exists
\* after the step (so that a later pass finds the remote record in added, not
\* in common).
C33_FailedAddLeavesNoRecord ==
    [][\A pr \in Procs :
          LET ps == zpass[pr]
          IN  (ps.pc = "add" /\ zpass'[pr].result.add_err = ps.result.add_err + 1) =>
                 ~\E x \in (IF ps.kind = ZONES THEN zones' ELSE nets') :
                       /\ x.parent = ps.parent
                       /\ x.external_id = ps.added[ps.i].external_id]_vars

\* C34: the delete check of a cloudprovider answers InvalidStatus whenever the
\* provider is enabled or its sync status is not idle: in every state the
\* providers that pass the check are disabled and idle, and a call of the
\* check that returns no InvalidStatus was made on such a provider.
C34_NoDeleteDuringSync ==
    /\ \A p \in Providers :
          (providers[p].enabled \/ providers[p].sync_status # IDLE)
             => CloudproviderValidateDeleteCondition(providers[p]) = "InvalidStatus"
    /\ \A p \in Providers :
          CloudproviderValidateDeleteCondition(providers[p]) = ""
             => (~providers[p].enabled /\ providers[p].sync_status = IDLE)
    /\ (lastCall.op = "ValidateDeleteCondition" /\ lastCall.err = "") =>
          /\ ~providers[lastCall.provider].enabled
          /\ providers[lastCall.provider].sync_status = IDLE

C34_Witness ==
    /\ lastCall.op = "ValidateDeleteCondition"
    /\ lastCall.err = "InvalidStatus"
    /\ ~providers[lastCall.provider].enabled
    /\ providers[lastCall.provider].sync_status = SYNCING

\* C35: a PerformEnable of a provider that succeeds leaves the provider and
\* its cloudaccount enabled; a PerformDisable that succeeds leaves the provider
\* disabled and, if no provider of the account is enabled any more, the
\* account disabled; either call, made while the account is enabled whenever
\* one of its providers is, leaves it so. A PerformEnable of a provider whose
\* status contains "delet" answers InvalidStatus and changes neither a
\* provider nor the account.
C35_EnabledFlagCoupling ==
    [][LET coupled(ps, a) == (\E q \in Providers : ps[q].enabled) => a.enabled
           p == lastCall'.provider
       IN  /\ (lastCall'.op = "PerformEnable" /\ lastCall'.err = "") =>
                 /\ providers'[p].enabled
                 /\ account'.enabled
                 /\ \A q \in Providers \ {p} : providers'[q] = providers[q]
           /\ (lastCall'.op = "PerformDisable" /\ lastCall'.err = "") =>
                 /\ ~providers'[p].enabled
                 /\ (\A q \in Providers : ~providers'[q].enabled) => ~account'.enabled
                 /\ (\E q \in Providers : providers'[q].enabled) =>
                        account'.enabled = account.enabled
                 /\ \A q \in Providers \ {p} : providers'[q] = providers[q]
           /\ (lastCall'.op \in {"PerformEnable", "PerformDisable"} /\ lastCall'.err = "") =>
                 (coupled(providers, account) => coupled(providers', account'))
           /\ (lastCall'.op = "PerformEnable"
               /\ providers[p].status \in {"start_delete", "deleting", "delete_failed"}) =>
                 /\ lastCall'.err = "InvalidStatus"
                 /\ UNCHANGED <<account, providers>>]_vars

C35_Witness ==
    /\ lastCall.op = "PerformDisable"
    /\ lastCall.err = ""
    /\ lastCall.account_enabled
    /\ ~account.enabled
    /\ \A q \in Providers : ~providers[q].enabled
    /\ nFaults = 0

\* C36: after initAllRecords has run, every cloudprovider record has sync
\* status idle, whatever status it had before.
C36_RestartRecovery ==
    [][lastCall'.op = "initAllRecords" =>
          \A p \in Providers : providers'[p].sync_status = IDLE]_vars

\* C37: when SyncCloudaccountResources returns an error in
\* OnCloudaccountSyncReady the task does not enter a failed stage: it goes on
\* to the fan-out, in which StartSyncCloudProviderInfoTask is called for every
\* enabled provider (each call creates a task or fails in NewTask), or, if no
\* provider is enabled, to its completion.
C37_ResourceSyncFailureNotFatal ==
    [][lastCall'.op = "SyncCloudaccountResources" =>
          LET cloudproviders == GetEnabledCloudproviders(DB)
              new == ptasks' \ ptasks
          IN  /\ atask.stage = "OnCloudaccountSyncReady"
              /\ atask'.stage # "failed"
              /\ IF cloudproviders = {}
                 THEN /\ atask'.stage = "complete"
                      /\ new = {}
                 ELSE /\ atask'.stage = "on_cloudaccount_sync_complete"
                      /\ {t.provider : t \in new} \subseteq cloudproviders
                      /\ Cardinality(new) + (nFaults' - nFaults) = Cardinality(cloudproviders)]_vars

C37_Witness ==
    /\ lastCall.op = "SyncCloudaccountResources"
    /\ atask.stage = "on_cloudaccount_sync_complete"
    /\ \E t \in ptasks : t.parent = "atask"

\* C38: a GetProjectMapping of a cloudprovider or of a cloudaccount that has no
\* cache entry even after the rebuild returns a NotFound error and never
\* dereferences a missing entry; and when the rebuild fails, the call returns
\* its error and the cache is as it was.
C38_UnknownEntityFailsCleanly ==
    [][(pmc'.pc = "done"
        /\ pmc'.op \in {"SCloudprovider.GetProjectMapping", "SCloudaccount.GetProjectMapping"}) =>
          LET self == pmc'.self
              entries == IF pmc'.op = "SCloudprovider.GetProjectMapping"
                         THEN {id \in DOMAIN pmCaches' : id = self}
                         ELSE {id \in DOMAIN pmCaches' : pmCaches'[id].CloudaccountId = self}
          IN  /\ pmc'.err # "panic"
              /\ (pmc'.refreshed /\ entries = {}) => pmc'.err = "cache:NotFound"
              /\ (~pmc'.hit /\ ~pmc'.refreshed) =>
                    (pmc'.err = "refreshPmCaches" /\ pmCaches' = pmCaches)]_vars

\* C39: in every interleaving of concurrent GetProjectMapping and
\* PerformProjectMapping calls and of the rebuilds they start, no two
\* goroutines access the map pmCaches at the same time with one of them
\* writing, and no goroutine reads the map while the rebuild of another has
\* stored some of its rows and not yet all.
C39_CacheRaceFree ==
    \A t, u \in Procs :
       t # u =>
          /\ ~(/\ pmc[t].acc # "none"
               /\ pmc[u].acc # "none"
               /\ "write" \in {pmc[t].acc, pmc[u].acc})
          /\ ~(/\ pmc[t].acc = "read"
               /\ pmc[u].pc = "assign"
               /\ pmc[u].stored > 0)
          /\ pmc[t].pc # "fatal"

\* C40: a pass of SyncZones takes the lock of its region first and the lock of
\* a record or the naming lock only while it holds that one, it never holds
\* two of the inner locks, and it holds no lock once it has returned, on the
\* early error returns too; and any number of concurrent passes for the same
\* or for different regions all return: none waits forever for a lock.
C40_LockDeadlockFreedom ==
    /\ [](\A pr \in DOMAIN zpass :
             LET ps == zpass[pr]
             IN  /\ Len(ps.held) <= 2
                 /\ Len(ps.held) >= 1 => ps.held[1] = LockKey(ZONES, ps.parent)
                 /\ Len(ps.held) = 2 => ps.held[2] # LockKey(ZONES, ps.parent)
                 /\ \A k \in DOMAIN ps.held : ps.held[k] \in zlocks
                 /\ ps.pc = "done" => ps.held = <<>>)
    /\ [](\A pr, qr \in DOMAIN zpass :
             pr # qr => \A k \in DOMAIN zpass[pr].held : \A j \in DOMAIN zpass[qr].held :
                           zpass[pr].held[k] # zpass[qr].held[j])
    /\ <>(\A pr \in DOMAIN zpass : zpass[pr].pc = "done" /\ zlocks = {})

C40_Witness ==
    /\ zpass[1].pc = "critical" /\ zpass[1].parent = "r1"
    /\ zpass[1].held = <<LockKey(ZONES, "r1"), <<"zone", "name">> >>
    /\ zpass[2].pc = "item" /\ zpass[2].parent = "r2" /\ zpass[2].items[zpass[2].i] = "add"
    /\ zpass[3].pc = "parent" /\ zpass[3].parent = "r1"

====
